---- MODULE Spec2Model ----
(***************************************************************************)
(* Model of echovault's MemoryService (src/memory/core.py), the hybrid     *)
(* ranker (src/memory/search.py) and the markdown mirror writer            *)
(* (src/memory/markdown.py).  The relational store memory.db.MemoryDB is   *)
(* not part of the source tree; its operations are modelled from section   *)
(* 4.1 of the specification.                                               *)
(***************************************************************************)
EXTENDS Integers, Sequences, FiniteSets, TLC

(* ------------------------------------------------------------------ *)
(* Bounds of the model                                                  *)
(* ------------------------------------------------------------------ *)
MaxSaves == 2        \* save() calls per behaviour (also the rowid range)
MaxLimit == 2        \* largest `limit` passed to search()
MaxText == 4         \* pieces in a text given to redact()
MaxRedacts == 2      \* redact() calls on one text

None == "None"
NoDim == 0                         \* no dimension recorded

\* what a call of embed(text) does: it raises, or returns a vector of the
\* model's dimension; NoProvider stands for "no embedding provider"
\* (a text is the sequence of its words)
Fail == [kind |-> "fail", len |-> 0, text |-> <<>>]
NoProvider == [kind |-> "none", len |-> 0, text |-> <<>>]
Vector(d, text) == [kind |-> "vec", len |-> d, text |-> text]

Dims == {2, 3}                     \* output dimensions of the embedding models
Projects == {"p1"}
Sources == {"claude-code"}
Terms == {"auth", "cache"}         \* the words a query is made of
Titles == {<<"auth">>}
Whats == {<<"auth">>}
\* details = None: the one-piece text no caller passes
NoDetails == <<None>>
Bodies == {NoDetails}              \* details bodies
Categories == {"decision"}
\* identifiers (uuid4 strings, here two symbols long): the k-th call of
\* uuid4() returns IdSeq[k]; identifiers never repeat
IdSeq == <<(<<1, 1>>), (<<1, 2>>), (<<2, 1>>), (<<2, 2>>)>>
IdPrefixes == {<<1>>, <<2>>} \cup {IdSeq[k] : k \in 1..Len(IdSeq)}

(* ------------------------------------------------------------------ *)
(* Generic helpers                                                      *)
(* ------------------------------------------------------------------ *)
Range(s) == {s[i] : i \in 1..Len(s)}

Take(s, n) == SubSeq(s, 1, IF n < Len(s) THEN n ELSE Len(s))

IsPrefix(p, s) == Len(p) <= Len(s) /\ SubSeq(s, 1, Len(p)) = p

RECURSIVE SelectIdx(_, _, _)
\* indices i >= from of s with Test(s[i]), as a sequence of elements
SelectIdx(s, Test(_), from) ==
    IF from > Len(s) THEN <<>>
    ELSE IF Test(s[from]) THEN <<s[from]>> \o SelectIdx(s, Test, from + 1)
    ELSE SelectIdx(s, Test, from + 1)

Filter(s, Test(_)) == SelectIdx(s, Test, 1)

(* scores are rationals <<numerator, denominator>>, denominator > 0 *)
RatLess(a, b) == a[1] * b[2] < b[1] * a[2]
RatEq(a, b) == a[1] * b[2] = b[1] * a[2]
RatAdd(a, b) == <<a[1] * b[2] + b[1] * a[2], a[2] * b[2]>>
RatMul(a, b) == <<a[1] * b[1], a[2] * b[2]>>
RatDiv(a, b) == <<a[1] * b[2], a[2] * b[1]>>

RECURSIVE InsertDesc(_, _)
\* insert r after every element whose score is >= r's: a stable descending sort
InsertDesc(sorted, r) ==
    IF sorted = <<>> THEN <<r>>
    ELSE IF RatLess(Head(sorted).score, r.score) THEN <<r>> \o sorted
    ELSE <<Head(sorted)>> \o InsertDesc(Tail(sorted), r)

RECURSIVE SortDesc(_)
\* sorted(xs, key=score, reverse=True): stable, descending
SortDesc(xs) ==
    IF xs = <<>> THEN <<>>
    ELSE InsertDesc(SortDesc(SubSeq(xs, 1, Len(xs) - 1)), xs[Len(xs)])

RECURSIVE MaxScore(_)
MaxScore(xs) ==
    IF Len(xs) = 1 THEN xs[1].score
    ELSE LET m == MaxScore(Tail(xs))
         IN IF RatLess(xs[1].score, m) THEN m ELSE xs[1].score

(* ------------------------------------------------------------------ *)
(* The Index: memory.db.MemoryDB (specification section 4.1)            *)
(* A db value is a record                                               *)
(*   memories : sequence of Index rows in rowid order                   *)
(*   vec      : set of vector rows [rowid, vector]                      *)
(*   vecState : "ABSENT", "READY" or "MISMATCHED"                       *)
(*   dim      : the recorded (active) dimension, NoDim when never set   *)
(*   nextRowid: the next surrogate                                      *)
(* A vector is [len |-> its length, text |-> the text it embeds].       *)
(* ------------------------------------------------------------------ *)
EmptyDB ==
    [memories |-> <<>>, vec |-> {}, vecState |-> "ABSENT", dim |-> NoDim,
     nextRowid |-> 1]

Scope(m, project, source) ==
    /\ (project = None \/ m.project = project)
    /\ (source = None \/ m.source = source)

insert_memory(db, mem, details) ==
    [db |-> [db EXCEPT !.memories = Append(@, [mem EXCEPT !.rowid = db.nextRowid,
                                                        !.details = details]),
                       !.nextRowid = @ + 1],
     rowid |-> db.nextRowid]

has_vec_table(db) == db.vecState # "ABSENT"

drop_vec_table(db) == [db EXCEPT !.vec = {}, !.vecState = "ABSENT"]

set_embedding_dim(db, d) == [db EXCEPT !.dim = d]

_create_vec_table(db, d) == [db EXCEPT !.vec = {}, !.vecState = "READY"]

\* ensureDimension(d): create when absent, no-op at the same dimension,
\* DimensionMismatchFault (raised = TRUE) and MISMATCHED at another one
ensure_vec_table(db, d) ==
    IF db.vecState = "ABSENT"
    THEN [db |-> _create_vec_table(set_embedding_dim(db, d), d), raised |-> FALSE]
    ELSE IF db.dim = d
    THEN [db |-> db, raised |-> FALSE]
    ELSE [db |-> [db EXCEPT !.vecState = "MISMATCHED"], raised |-> TRUE]

\* insertVector(surrogate, vector): fails unless the length is the active one
insert_vector(db, rowid, vector) ==
    IF has_vec_table(db) /\ vector.len = db.dim
    THEN [db |-> [db EXCEPT !.vec = {r \in @ : r.rowid # rowid}
                                   \cup {[rowid |-> rowid, vector |-> vector]}],
          raised |-> FALSE]
    ELSE [db |-> db, raised |-> TRUE]

list_all_for_reindex(db) == db.memories

MatchingIds(db, prefix) ==
    {i \in 1..Len(db.memories) : IsPrefix(prefix, db.memories[i].id)}

\* deleteRecord(idOrPrefix): removed (result), not found, or AmbiguousIdFault
\* (raised); removes the row and its vector row
delete_memory(db, prefix) ==
    LET hits == MatchingIds(db, prefix)
    IN IF hits = {} THEN [db |-> db, result |-> FALSE, raised |-> FALSE]
       ELSE IF Cardinality(hits) > 1
       THEN [db |-> db, result |-> FALSE, raised |-> TRUE]
       ELSE LET i == CHOOSE j \in hits : TRUE
                rid == db.memories[i].rowid
            IN [db |-> [db EXCEPT
                          !.memories = Filter(@, LAMBDA m : m.rowid # rid),
                          !.vec = {r \in @ : r.rowid # rid}],
                result |-> TRUE, raised |-> FALSE]

get_details(db, memory_id) ==
    LET hits == {i \in 1..Len(db.memories) : db.memories[i].id = memory_id}
    IN IF hits = {} THEN NoDetails
       ELSE db.memories[CHOOSE j \in hits : TRUE].details

count_memories(db, project, source) ==
    Cardinality({i \in 1..Len(db.memories) :
                    Scope(db.memories[i], project, source)})

\* the rows of a sequence in reverse order
Reverse(xs) == [i \in 1..Len(xs) |-> xs[Len(xs) + 1 - i]]

\* keyword relevance of a row for a query: positive for a hit
FtsScore(m, query) ==
    (IF query \in Range(m.title) THEN 2 ELSE 0)
    + (IF query \in Range(m.what) THEN 1 ELSE 0)

Hit(m, score) ==
    [id |-> m.id, rowid |-> m.rowid, title |-> m.title, what |-> m.what,
     project |-> m.project, category |-> m.category,
     source |-> m.source, has_details |-> m.details # NoDetails, score |-> score]

MapHits(ms, Score(_)) == [i \in 1..Len(ms) |-> Hit(ms[i], <<Score(ms[i]), 1>>)]

\* listRecent(limit, project?, source?): the latest rows first, at most limit;
\* a recent row carries no relevance, 0 stands for it
list_recent(db, limit, project, source) ==
    LET ms == Filter(Reverse(db.memories), LAMBDA m : Scope(m, project, source))
    IN Take(MapHits(ms, LAMBDA m : 0), limit)

\* fullTextSearch(query, limit, project?, source?): at most limit hits with
\* positive scores, best first
fts_search(db, query, limit, project, source) ==
    LET ms == Filter(db.memories,
                     LAMBDA m : Scope(m, project, source) /\ FtsScore(m, query) > 0)
    IN Take(SortDesc(MapHits(ms, LAMBDA m : FtsScore(m, query))), limit)

\* similarity of a stored vector to the query vector
Similarity(v, q) == IF Range(q.text) \subseteq Range(v.text) THEN 2 ELSE 1

HasVector(db, rowid) == \E r \in db.vec : r.rowid = rowid

VectorOf(db, rowid) == (CHOOSE r \in db.vec : r.rowid = rowid).vector

\* vectorSearch(queryVector, limit, project?, source?): fails unless READY
vector_search(db, q, limit, project, source) ==
    IF db.vecState # "READY" \/ q.len # db.dim
    THEN [raised |-> TRUE, rows |-> <<>>]
    ELSE LET ms == Filter(db.memories,
                          LAMBDA m : Scope(m, project, source)
                                     /\ HasVector(db, m.rowid))
         IN [raised |-> FALSE,
             rows |-> Take(SortDesc(MapHits(ms,
                        LAMBDA m : Similarity(VectorOf(db, m.rowid), q))), limit)]

(* ------------------------------------------------------------------ *)
(* The hybrid ranker: src/memory/search.py                              *)
(* ------------------------------------------------------------------ *)
fts_weight == <<3, 10>>
vec_weight == <<7, 10>>

\* a normalization that divides by max(scores) as it is, zero included
Normalize_DividesByZero(xs) ==
    IF xs = <<>> THEN xs
    ELSE LET m == MaxScore(xs)
         IN [i \in 1..Len(xs) |-> [xs[i] EXCEPT !.score = RatDiv(@, m)]]

\* r["score"] / max if max > 0 else 0.0, with max = max(scores) or 1.0
Normalize(xs) ==
    IF xs = <<>> THEN xs
    ELSE LET m0 == MaxScore(xs)
             m == IF RatEq(m0, <<0, 1>>) THEN <<1, 1>> ELSE m0
         IN [i \in 1..Len(xs) |->
               [xs[i] EXCEPT !.score = IF RatLess(<<0, 1>>, m) THEN RatDiv(@, m)
                                       ELSE <<0, 1>>]]

IndexOfId(xs, id) ==
    IF \E i \in 1..Len(xs) : xs[i].id = id
    THEN CHOOSE i \in 1..Len(xs) : xs[i].id = id
    ELSE 0

RECURSIVE PutFts(_, _)
\* scores[rid] = dict(r); scores[rid]["score"] = fts_weight * r["score"]
PutFts(scores, rs) ==
    IF rs = <<>> THEN scores
    ELSE LET r == [Head(rs) EXCEPT !.score = RatMul(fts_weight, @)]
             i == IndexOfId(scores, r.id)
         IN PutFts(IF i = 0 THEN Append(scores, r) ELSE [scores EXCEPT ![i] = r],
                   Tail(rs))

RECURSIVE PutVec_Overwrites(_, _)
\* a vector pass that stores the vector term in place of adding it
PutVec_Overwrites(scores, rs) ==
    IF rs = <<>> THEN scores
    ELSE LET r == Head(rs)
             w == RatMul(vec_weight, r.score)
             i == IndexOfId(scores, r.id)
         IN PutVec_Overwrites(IF i = 0 THEN Append(scores, [r EXCEPT !.score = w])
                              ELSE [scores EXCEPT ![i].score = w],
                              Tail(rs))

RECURSIVE PutVec(_, _)
\* add vec_weight * r["score"] to an entry, or create the entry
PutVec(scores, rs) ==
    IF rs = <<>> THEN scores
    ELSE LET r == Head(rs)
             w == RatMul(vec_weight, r.score)
             i == IndexOfId(scores, r.id)
         IN PutVec(IF i = 0 THEN Append(scores, [r EXCEPT !.score = w])
                   ELSE [scores EXCEPT ![i].score = RatAdd(@, w)],
                   Tail(rs))

\* a ranker that returns the entries in the order they were combined
merge_results_Unsorted(fts_results, vec_results, limit) ==
    LET scores == PutVec(PutFts(<<>>, Normalize(fts_results)), Normalize(vec_results))
    IN Take(scores, limit)

\* a ranker that returns every combined entry, whatever limit is
merge_results_Untruncated(fts_results, vec_results, limit) ==
    LET scores == PutVec(PutFts(<<>>, Normalize(fts_results)), Normalize(vec_results))
    IN SortDesc(scores)

merge_results(fts_results, vec_results, limit) ==
    LET scores == PutVec(PutFts(<<>>, Normalize(fts_results)), Normalize(vec_results))
    IN Take(SortDesc(scores), limit)

\* the full-text-only mode of hybrid_search: the scores divided by their
\* maximum, the list cut to limit
fts_only(fts_results, limit) == Take(Normalize(fts_results), limit)

\* a hybrid_search whose full-text-only mode applies the full-text weight
hybrid_search_WeightedFts(db, embedding_provider, query, limit, project, source) ==
    LET fts_results == fts_search(db, query, limit * 2, project, source)
    IN IF embedding_provider = NoProvider
       THEN [raised |-> FALSE,
             rows |-> merge_results(fts_results, <<>>, limit)]
       ELSE IF embedding_provider = Fail
       THEN [raised |-> TRUE, rows |-> <<>>]
       ELSE LET vs == vector_search(db, embedding_provider, limit * 2,
                                    project, source)
            IN IF vs.raised THEN [raised |-> TRUE, rows |-> <<>>]
               ELSE [raised |-> FALSE,
                     rows |-> merge_results(fts_results, vs.rows, limit)]

\* a hybrid_search that asks the vector index without the project and
\* source filters
hybrid_search_UnfilteredVectors(db, embedding_provider, query, limit, project, source) ==
    LET fts_results == fts_search(db, query, limit * 2, project, source)
    IN IF embedding_provider = NoProvider
       THEN [raised |-> FALSE, rows |-> fts_only(fts_results, limit)]
       ELSE IF embedding_provider = Fail
       THEN [raised |-> TRUE, rows |-> <<>>]
       ELSE LET vs == vector_search(db, embedding_provider, limit * 2,
                                    None, None)
            IN IF vs.raised THEN [raised |-> TRUE, rows |-> <<>>]
               ELSE [raised |-> FALSE,
                     rows |-> merge_results(fts_results, vs.rows, limit)]

\* embedding_provider is NoProvider (full-text only) or what embed(query)
\* does on this call: Fail, or the query vector.  Returns [raised, rows].
hybrid_search(db, embedding_provider, query, limit, project, source) ==
    LET fts_results == fts_search(db, query, limit * 2, project, source)
    IN IF embedding_provider = NoProvider
       THEN [raised |-> FALSE, rows |-> fts_only(fts_results, limit)]
       ELSE IF embedding_provider = Fail
       THEN [raised |-> TRUE, rows |-> <<>>]
       ELSE LET vs == vector_search(db, embedding_provider, limit * 2,
                                    project, source)
            IN IF vs.raised THEN [raised |-> TRUE, rows |-> <<>>]
               ELSE [raised |-> FALSE,
                     rows |-> merge_results(fts_results, vs.rows, limit)]

(* ------------------------------------------------------------------ *)
(* The mirror writer: src/memory/markdown.py                            *)
(* A file is its frontmatter lists and the lines of its body            *)
(* (body.split("\n")).  A line is [k, v, of]: k its kind, v its text    *)
(* after the marker, of the identifier of the record it was rendered    *)
(* for (bookkeeping only, never read by the writer).  A free text is    *)
(* the sequence of its pieces; the piece "\n" ends a line, and a piece  *)
(* "## <heading>" alone on a line reads as a second-level heading.      *)
(* ------------------------------------------------------------------ *)
Line(k, v) == [k |-> k, v |-> v, of |-> <<>>]
Blank == Line("blank", "")
H1 == Line("h1", "Session")
H2(heading) == Line("h2", heading)

\* dir: the project directory exists; exists: its session file of the day does
NoFile ==
    [dir |-> FALSE, exists |-> FALSE, sources |-> <<>>, tags |-> <<>>,
     body |-> <<>>]

\* models.VALID_CATEGORIES, in canonical order, and models.CATEGORY_HEADINGS
VALID_CATEGORIES == <<"decision", "pattern", "bug", "context", "learning">>

CATEGORY_HEADINGS ==
    [c \in Range(VALID_CATEGORIES) |->
        CASE c = "decision" -> "Decisions"
          [] c = "pattern" -> "Patterns"
          [] c = "bug" -> "Bugs Fixed"
          [] c = "context" -> "Context"
          [] c = "learning" -> "Learnings"]

CategoryIndex(c) == CHOOSE i \in 1..Len(VALID_CATEGORIES) : VALID_CATEGORIES[i] = c

\* the pieces that read as a category heading when alone on a line
HeadingText(piece) ==
    CASE piece = "## Decisions" -> "Decisions"
      [] piece = "## Patterns" -> "Patterns"
      [] piece = "## Bugs Fixed" -> "Bugs Fixed"
      [] piece = "## Context" -> "Context"
      [] piece = "## Learnings" -> "Learnings"
      [] OTHER -> None

RECURSIVE SplitLines(_, _)
\* text.split("\n"): the lines of a text, cur being the line read so far
SplitLines(text, cur) ==
    IF text = <<>> THEN <<cur>>
    ELSE IF Head(text) = "\n" THEN <<cur>> \o SplitLines(Tail(text), <<>>)
    ELSE SplitLines(Tail(text), Append(cur, Head(text)))

\* one line of a details body as the writer reads it back
DetailLine(pieces, id) ==
    IF Len(pieces) = 1 /\ HeadingText(pieces[1]) # None
    THEN [k |-> "h2", v |-> HeadingText(pieces[1]), of |-> id]
    ELSE [k |-> "text", v |-> pieces, of |-> id]

render_section(mem, details) ==
    <<[k |-> "h3", v |-> mem.title, of |-> mem.id],
      [k |-> "what", v |-> mem.what, of |-> mem.id]>>
    \o (IF mem.source # None
        THEN <<[k |-> "source", v |-> mem.source, of |-> mem.id]>> ELSE <<>>)
    \o (IF details # NoDetails
        THEN <<Blank, [k |-> "<details>", v |-> "", of |-> mem.id]>>
             \o [i \in 1..Len(SplitLines(details, <<>>)) |->
                   DetailLine(SplitLines(details, <<>>)[i], mem.id)]
             \o <<[k |-> "</details>", v |-> "", of |-> mem.id]>>
        ELSE <<>>)

RECURSIVE RStrip(_)
\* the lines of text.rstrip(), for the lines of text
RStrip(lines) ==
    IF lines = <<>> THEN <<Blank>>
    ELSE IF lines[Len(lines)].k = "blank"
    THEN RStrip(SubSeq(lines, 1, Len(lines) - 1))
    ELSE lines

RECURSIVE SortedInsert(_, _)
SortedInsert(tags, t) ==
    IF tags = <<>> THEN <<t>>
    ELSE IF t <= Head(tags) THEN <<t>> \o tags
    ELSE <<Head(tags)>> \o SortedInsert(Tail(tags), t)

RECURSIVE Sorted(_)
\* sorted(tags); a tag is the rank of its string in string order
Sorted(tags) ==
    IF tags = <<>> THEN <<>> ELSE SortedInsert(Sorted(Tail(tags)), Head(tags))

RECURSIVE SortedSet(_)
\* sorted(set(tags))
SortedSet(S) ==
    IF S = {} THEN <<>>
    ELSE LET m == CHOOSE x \in S : \A y \in S : x <= y
         IN <<m>> \o SortedSet(S \ {m})

_create_new_session_file(mem, section_content) ==
    [dir |-> TRUE, exists |-> TRUE,
     sources |-> IF mem.source # None THEN <<mem.source>> ELSE <<>>,
     tags |-> Sorted(mem.tags),
     body |-> <<Blank, H1, Blank>>
              \o (IF mem.category # None
                  THEN <<H2(CATEGORY_HEADINGS[mem.category]), Blank>> ELSE <<>>)
              \o section_content \o <<Blank>>]

\* [s.strip() for s in sources_str.split(",")] of one name as it stands in
\* the line: a name that holds a comma comes back as its parts
SplitName(name) == IF name = "a,b" THEN <<"a", "b">> ELSE <<name>>

RECURSIVE ParseNames(_)
\* the names read back from a `sources: [...]` line, which holds the names
\* of the list joined by ", "
ParseNames(names) ==
    IF names = <<>> THEN <<>>
    ELSE SplitName(Head(names)) \o ParseNames(Tail(names))

_update_frontmatter(file, mem) ==
    [file EXCEPT
       !.tags = SortedSet(Range(@) \cup Range(mem.tags)),
       !.sources = IF mem.source # None /\ mem.source \notin Range(ParseNames(@))
                   THEN Append(ParseNames(@), mem.source) ELSE ParseNames(@)]

\* line == f"## {category_heading}"
IsHeading(line, category_heading) ==
    line.k = "h2" /\ line.v = category_heading

\* f"## {category_heading}" in body, a substring test: true for the heading
\* line, and for a "### " title line whose title begins with the heading
ContainsHeading(body, category_heading) ==
    \E i \in 1..Len(body) :
       \/ IsHeading(body[i], category_heading)
       \/ /\ body[i].k = "h3"
          /\ body[i].v # <<>>
          /\ body[i].v[1] = category_heading

RECURSIVE AppendUnder(_, _, _, _, _)
\* the while loop of _append_under_existing_category; mode "scan" copies
\* lines, "blanks" and "h3" copy the target category up to the next "## "
AppendUnder(lines, i, mode, category_heading, section_content) ==
    IF mode = "scan"
    THEN IF i > Len(lines) THEN <<>>
         ELSE <<lines[i]>> \o
              AppendUnder(lines, i + 1,
                          IF IsHeading(lines[i], category_heading)
                          THEN "blanks" ELSE "scan",
                          category_heading, section_content)
    ELSE IF mode = "blanks" /\ i <= Len(lines) /\ lines[i].k = "blank"
    THEN <<lines[i]>> \o AppendUnder(lines, i + 1, "blanks",
                                     category_heading, section_content)
    ELSE IF i <= Len(lines) /\ lines[i].k # "h2"
    THEN <<lines[i]>> \o AppendUnder(lines, i + 1, "h3",
                                     category_heading, section_content)
    ELSE <<Blank>> \o section_content
         \o AppendUnder(lines, i, "scan", category_heading, section_content)

_append_under_existing_category(body, category_heading, section_content) ==
    AppendUnder(body, 1, "scan", category_heading, section_content) \o <<Blank>>

\* the first "## " line naming a category of greater rank, else len(lines)
InsertPosition(lines, category) ==
    LET later == {i \in 1..Len(lines) :
                    /\ lines[i].k = "h2"
                    /\ \E c \in Range(VALID_CATEGORIES) :
                         /\ CATEGORY_HEADINGS[c] = lines[i].v
                         /\ CategoryIndex(c) > CategoryIndex(category)}
    IN IF later = {} THEN Len(lines) + 1
       ELSE CHOOSE i \in later : \A j \in later : i <= j

_insert_new_category(body, category, category_heading, section_content) ==
    LET pos == InsertPosition(body, category)
    IN RStrip(SubSeq(body, 1, pos - 1)
              \o <<H2(category_heading), Blank>> \o section_content \o <<Blank>>
              \o SubSeq(body, pos, Len(body)))
       \o <<Blank>>

_insert_section_in_body(body, mem, section_content) ==
    IF mem.category = None
    THEN RStrip(body) \o <<Blank>> \o section_content \o <<Blank>>
    ELSE IF ContainsHeading(body, CATEGORY_HEADINGS[mem.category])
    THEN _append_under_existing_category(body, CATEGORY_HEADINGS[mem.category],
                                         section_content)
    ELSE _insert_new_category(body, mem.category, CATEGORY_HEADINGS[mem.category],
                              section_content)

\* an _append_to_session_file that writes the new section alone, as into a
\* new file
_append_to_session_file_Overwrites(file, mem, section_content) ==
    _create_new_session_file(mem, section_content)

_append_to_session_file(file, mem, section_content) ==
    [_update_frontmatter(file, mem) EXCEPT
       !.body = _insert_section_in_body(file.body, mem, section_content)]

\* the file after write_session_memory
write_session_memory(file, mem, details) ==
    IF ~file.exists
    THEN _create_new_session_file(mem, render_section(mem, details))
    ELSE _append_to_session_file(file, mem, render_section(mem, details))

(* ------------------------------------------------------------------ *)
(* The redaction collaborator: src/memory/redaction.py                  *)
(* A text is the sequence of its pieces.  "<reda" "cted>" side by side  *)
(* are the tag "<redacted>", "</reda" "cted>" the tag "</redacted>",    *)
(* and "-----BEGIN " "PRIVATE KEY-----" the private key marker of       *)
(* SENSITIVE_PATTERNS; no other built-in pattern matches a text made    *)
(* of the pieces used here.                                             *)
(* ------------------------------------------------------------------ *)
REDACTED == "[REDACTED]"

\* the built-in patterns that can match, each the pieces of its literal
SENSITIVE_PATTERNS == <<(<<"-----BEGIN ", "PRIVATE KEY-----">>)>>

OpenTagAt(text, i) ==
    i + 1 <= Len(text) /\ text[i] = "<reda" /\ text[i + 1] = "cted>"

CloseTagAt(text, i) ==
    i + 1 <= Len(text) /\ text[i] = "</reda" /\ text[i + 1] = "cted>"

RECURSIVE SubTags(_, _)
\* REDACTED_TAG_PATTERN.sub("[REDACTED]", text) from position i on: the
\* leftmost "<redacted>" with a "</redacted>" after it is replaced up to
\* the nearest one (.*? is not greedy), and the scan goes on behind it
SubTags(text, i) ==
    IF i > Len(text) THEN <<>>
    ELSE IF OpenTagAt(text, i) /\ \E j \in (i + 2)..Len(text) : CloseTagAt(text, j)
    THEN LET j == CHOOSE c \in (i + 2)..Len(text) :
                     /\ CloseTagAt(text, c)
                     /\ \A d \in (i + 2)..(c - 1) : ~CloseTagAt(text, d)
         IN <<REDACTED>> \o SubTags(text, j + 2)
    ELSE <<text[i]>> \o SubTags(text, i + 1)

RECURSIVE RedactTags(_)
\* the while loop of redact(): substitute until nothing changes
RedactTags(text) ==
    LET t == SubTags(text, 1)
    IN IF t = text THEN text ELSE RedactTags(t)

RECURSIVE Replace(_, _, _)
\* text.replace(old, new): the occurrences of old from left to right, not
\* overlapping; what the replacement puts together is not looked at again
Replace(text, old, new) ==
    IF Len(text) < Len(old) THEN text
    ELSE IF SubSeq(text, 1, Len(old)) = old
    THEN new \o Replace(SubSeq(text, Len(old) + 1, Len(text)), old, new)
    ELSE <<Head(text)>> \o Replace(Tail(text), old, new)

RECURSIVE SubPatterns(_, _)
\* the for loop of redact(): compiled.sub("[REDACTED]", text) per pattern
SubPatterns(text, patterns) ==
    IF patterns = <<>> THEN text
    ELSE SubPatterns(Replace(text, Head(patterns), <<REDACTED>>), Tail(patterns))

redact(text, extra_patterns) ==
    LET tagged == RedactTags(text)
        cleaned == Replace(Replace(tagged, <<"<reda", "cted>">>, <<>>),
                           <<"</reda", "cted>">>, <<>>)
    IN SubPatterns(cleaned, SENSITIVE_PATTERNS \o extra_patterns)

(* ------------------------------------------------------------------ *)
(* The orchestrator: src/memory/core.py, class MemoryService            *)
(* A service value S is [db, vault, va]: the Index, the mirror file of  *)
(* each project for the current day, and _vectors_available (None,      *)
(* "True" or "False").                                                  *)
(* ------------------------------------------------------------------ *)
\* the property vectors_available: the flag after the access
vectors_available(S) ==
    IF S.va = None
    THEN (IF has_vec_table(S.db) THEN "True" ELSE "False")
    ELSE S.va

\* _ensure_vectors that migrates on a mismatch: it drops the table and
\* creates it again at the new dimension
_ensure_vectors_Migrates(db, embedding) ==
    LET r == ensure_vec_table(db, embedding.len)
    IN IF ~r.raised
       THEN [db |-> r.db, va |-> "True", ok |-> TRUE]
       ELSE [db |-> _create_vec_table(
                        set_embedding_dim(drop_vec_table(db), embedding.len),
                        embedding.len),
             va |-> "True", ok |-> TRUE]

\* _ensure_vectors that creates the table on every call
_ensure_vectors_Recreates(db, embedding) ==
    LET r == ensure_vec_table(db, embedding.len)
    IN IF ~r.raised
       THEN [db |-> _create_vec_table(r.db, embedding.len), va |-> "True",
             ok |-> TRUE]
       ELSE [db |-> r.db, va |-> "False", ok |-> FALSE]

_ensure_vectors(db, embedding) ==
    LET r == ensure_vec_table(db, embedding.len)
    IN IF ~r.raised
       THEN [db |-> r.db, va |-> "True", ok |-> TRUE]
       ELSE [db |-> r.db, va |-> "False", ok |-> FALSE]

\* Memory.from_raw(raw, project, file_path)
from_raw(raw, project, id) ==
    [rowid |-> 0, id |-> id, title |-> raw.title, what |-> raw.what,
     project |-> project, source |-> raw.source, category |-> raw.category,
     tags |-> raw.tags, details |-> NoDetails]

embed_text(mem) == mem.title \o mem.what

\* save() without its try/except: an exception of embed() reaches the caller
BestEffortEmbed_Propagates(db, va, rowid, embedding) ==
    IF embedding = Fail
    THEN [db |-> db, va |-> va, mismatch |-> FALSE, stored |-> FALSE, raised |-> TRUE]
    ELSE LET r == ensure_vec_table(db, embedding.len)
         IN IF r.raised
            THEN [db |-> r.db, va |-> "False", mismatch |-> TRUE,
                  stored |-> FALSE, raised |-> FALSE]
            ELSE LET iv == insert_vector(r.db, rowid, embedding)
                 IN [db |-> iv.db, va |-> "True", mismatch |-> FALSE,
                     stored |-> ~iv.raised, raised |-> iv.raised]

\* the try block of save(): embed, _ensure_vectors, insert_vector; every
\* exception is caught.  embedding is what embed(embed_text) does.
BestEffortEmbed(db, va, rowid, embedding) ==
    IF embedding = Fail
    THEN [db |-> db, va |-> va, mismatch |-> FALSE, stored |-> FALSE, raised |-> FALSE]
    ELSE LET ev == _ensure_vectors(db, embedding)
         IN IF ev.ok
            THEN LET iv == insert_vector(ev.db, rowid, embedding)
                 IN [db |-> iv.db, va |-> ev.va, mismatch |-> FALSE,
                     stored |-> ~iv.raised, raised |-> FALSE]
            ELSE [db |-> ev.db, va |-> ev.va, mismatch |-> TRUE,
                  stored |-> FALSE, raised |-> FALSE]

\* save(raw, project): id is the uuid Memory.from_raw draws, provider what
\* embed() does during this call (Fail or the model's dimension)
save(S, raw, project, id, provider) ==
    LET mem == from_raw(raw, project, id)
        file == write_session_memory(S.vault[project], mem, raw.details)
        ins == insert_memory(S.db, mem, raw.details)
        embedding == IF provider = Fail THEN Fail
                     ELSE Vector(provider.len, embed_text(mem))
        be == BestEffortEmbed(ins.db, S.va, ins.rowid, embedding)
    IN IF be.raised
       THEN [db |-> ins.db, vault |-> [S.vault EXCEPT ![project] = file],
             va |-> S.va, raised |-> TRUE, id |-> <<>>, file_path |-> None,
             rowid |-> ins.rowid, mismatch |-> FALSE, stored |-> FALSE]
       ELSE [db |-> be.db, vault |-> [S.vault EXCEPT ![project] = file],
             va |-> be.va, raised |-> FALSE, id |-> mem.id, file_path |-> project,
             rowid |-> ins.rowid, mismatch |-> be.mismatch, stored |-> be.stored]

\* self.ignore_patterns: the service was built with a .memoryignore file
\* holding the one pattern "acme"
ignore_patterns == <<(<<"acme">>)>>

\* os.makedirs(vault_project_dir, exist_ok=True)
makedirs(file) == [file EXCEPT !.dir = TRUE]

\* `if text:` for an optional text
Truthy(text) == text # NoDetails /\ text # <<>>

\* a redaction block that leaves the details body as it came
RedactFields_WhatOnly(raw, extra_patterns) ==
    [raw EXCEPT !.what = redact(@, extra_patterns)]

\* the redaction block of save(): what always, details when given and not
\* empty; the title is handed on as it came
RedactFields(raw, extra_patterns) ==
    [raw EXCEPT !.what = redact(@, extra_patterns),
                !.details = IF Truthy(@) THEN redact(@, extra_patterns) ELSE @]

_build_enrichment_text(raw) ==
    raw.title \o raw.what \o (IF Truthy(raw.details) THEN raw.details ELSE <<>>)

\* the tags, each the rank of its string in string order
TagNames ==
    <<"API", "api", "jwt", "jwt!", "k1", "k2", "k3", "k4", "k5", "k6", "k7",
      "k8", "k9", "~">>

\* tag.lower()
Lower(tag) == IF TagNames[tag] = "API" THEN 2 ELSE tag

\* the empty string a tag without a letter, digit, dot, dash or underscore
\* is normalized to
EmptyTag == 0

\* normalize_tag: the characters outside [a-zA-Z0-9._-] dropped, lower case
normalize_tag(tag) ==
    IF TagNames[tag] = "~" THEN EmptyTag
    ELSE IF TagNames[tag] = "jwt!" THEN 3
    ELSE Lower(tag)

RECURSIVE DedupeLoop(_, _, _)
\* the for loop of dedupe_tags, result being the list built so far
DedupeLoop(tags, result, max_tags) ==
    IF tags = <<>> \/ Len(result) >= max_tags THEN result
    ELSE IF normalize_tag(Head(tags)) = EmptyTag
            \/ normalize_tag(Head(tags)) \in Range(result)
    THEN DedupeLoop(Tail(tags), result, max_tags)
    ELSE DedupeLoop(Tail(tags), Append(result, normalize_tag(Head(tags))), max_tags)

dedupe_tags(tags, max_tags) == DedupeLoop(tags, <<>>, max_tags)

\* a _merge_tags that appends every extra tag
_merge_tags_AppendsAll(existing, extra) == existing \o extra

RECURSIVE _merge_tags(_, _)
_merge_tags(existing, extra) ==
    IF extra = <<>> THEN existing
    ELSE IF Lower(Head(extra)) \in {Lower(existing[i]) : i \in 1..Len(existing)}
    THEN _merge_tags(existing, Tail(extra))
    ELSE _merge_tags(Append(existing, Head(extra)), Tail(extra))

\* what the enrichment collaborator does in one save(): no provider is
\* configured, the enrichment_provider property raises (an unknown provider
\* name, a provider module that cannot be imported), extract_tags raises,
\* or it returns a tag list
NoEnrichment == [kind |-> "none", tags |-> <<>>]
CreateFail == [kind |-> "unobtainable", tags |-> <<>>]
ExtractFail == [kind |-> "fail", tags |-> <<>>]
Extracted(tags) == [kind |-> "tags", tags |-> tags]

\* max_tags of the extract_tags and dedupe_tags calls of save()
MaxTags == 8

\* the `if enrich:` block of save(): the raw input after it, whether
\* extract_tags was called, the text it was called with, and whether the
\* block raised: the provider is obtained before the try block
Enrich(raw, enrich, enrichment) ==
    IF ~enrich \/ enrichment.kind = "none"
    THEN [raw |-> raw, called |-> FALSE, text |-> <<>>, raised |-> FALSE]
    ELSE IF enrichment.kind = "unobtainable"
    THEN [raw |-> raw, called |-> FALSE, text |-> <<>>, raised |-> TRUE]
    ELSE [raw |-> IF enrichment.kind = "tags"
                     /\ dedupe_tags(enrichment.tags, MaxTags) # <<>>
                  THEN [raw EXCEPT !.tags =
                          _merge_tags(@, dedupe_tags(enrichment.tags, MaxTags))]
                  ELSE raw,
          called |-> TRUE, text |-> _build_enrichment_text(raw), raised |-> FALSE]

\* required fields missing: an empty title or an empty `what`
ValidationFault(raw) == raw.title = <<>> \/ raw.what = <<>>

\* save() left by an exception: S1 is the service as the exception found it
Raised(S1, fault, calls) ==
    [db |-> S1.db, vault |-> S1.vault, va |-> S1.va, raised |-> TRUE,
     fault |-> fault, id |-> <<>>, file_path |-> None, mismatch |-> FALSE,
     stored |-> FALSE, calls |-> calls]

\* save() that inserts the Index row first and writes the mirror after it
MemoryService_save_IndexFirst(S, raw0, project, enrich, id, env) ==
    LET S0 == [S EXCEPT !.vault[project] = makedirs(@)]
        en == Enrich(RedactFields(raw0, ignore_patterns), enrich, env.enrichment)
        raw == en.raw
        calls0 == <<"makedirs">> \o (IF en.called THEN <<"extract_tags">> ELSE <<>>)
        mem == from_raw(raw, project, id)
        ins == insert_memory(S0.db, mem, raw.details)
        S1 == [S0 EXCEPT !.db = ins.db]
        S2 == [S1 EXCEPT !.vault[project] =
                 write_session_memory(@, mem, raw.details)]
        embedding == IF env.provider = Fail THEN Fail
                     ELSE Vector(env.provider.len, embed_text(mem))
        be == BestEffortEmbed(S2.db, S2.va, ins.rowid, embedding)
    IN IF en.raised
       THEN Raised(S0, "EnrichmentFault", calls0)
       ELSE IF ValidationFault(raw)
       THEN Raised(S0, "ValidationFault", calls0)
       ELSE IF env.index = "raise"
       THEN Raised(S0, "StorageFault", calls0 \o <<"insert_memory">>)
       ELSE IF env.mirror = "raise"
       THEN Raised(S1, "StorageFault",
                   calls0 \o <<"insert_memory", "write_session_memory">>)
       ELSE [db |-> be.db, vault |-> S2.vault, va |-> be.va, raised |-> FALSE,
             fault |-> None, id |-> mem.id, file_path |-> project,
             mismatch |-> be.mismatch, stored |-> be.stored,
             calls |-> calls0 \o <<"insert_memory", "write_session_memory", "embed">>]

\* save(raw0, project, enrich) with its collaborators: id is the uuid
\* Memory.from_raw draws; env is what the collaborators do during the call:
\* enrichment (see Enrich), mirror and index ("ok", or "raise" for an I/O
\* error of the mirror write or of the Index insert), provider (embed()
\* fails or returns a vector).  calls lists the effects in call order.
\* A fault of the enrichment_provider property leaves save() before
\* Memory.from_raw.
MemoryService_save(S, raw0, project, enrich, id, env) ==
    LET S0 == [S EXCEPT !.vault[project] = makedirs(@)]
        en == Enrich(RedactFields(raw0, ignore_patterns), enrich, env.enrichment)
        raw == en.raw
        calls0 == <<"makedirs">> \o (IF en.called THEN <<"extract_tags">> ELSE <<>>)
        mem == from_raw(raw, project, id)
        S1 == [S0 EXCEPT !.vault[project] =
                 write_session_memory(@, mem, raw.details)]
        ins == insert_memory(S1.db, mem, raw.details)
        embedding == IF env.provider = Fail THEN Fail
                     ELSE Vector(env.provider.len, embed_text(mem))
        be == BestEffortEmbed(ins.db, S1.va, ins.rowid, embedding)
    IN IF en.raised
       THEN Raised(S0, "EnrichmentFault", calls0)
       ELSE IF ValidationFault(raw)
       THEN Raised(S0, "ValidationFault", calls0)
       ELSE IF env.mirror = "raise"
       THEN Raised(S0, "StorageFault", calls0 \o <<"write_session_memory">>)
       ELSE IF env.index = "raise"
       THEN Raised(S1, "StorageFault",
                   calls0 \o <<"write_session_memory", "insert_memory">>)
       ELSE [db |-> be.db, vault |-> S1.vault, va |-> be.va, raised |-> FALSE,
             fault |-> None, id |-> mem.id, file_path |-> project,
             mismatch |-> be.mismatch, stored |-> be.stored,
             calls |-> calls0 \o <<"write_session_memory", "insert_memory", "embed">>]

\* search() with hybrid_search() called outside the try block: a fault of
\* the vector path reaches the caller
search_NoFallback(S, query, limit, project, source, use_vectors, e1, e2) ==
    LET fts == hybrid_search(S.db, NoProvider, query, limit, project, source)
        va0 == IF S.va = None
               THEN (IF has_vec_table(S.db) THEN "True" ELSE "False") ELSE S.va
        r == ensure_vec_table(S.db, e1.len)
        hy == hybrid_search(r.db, e2, query, limit, project, source)
    IN IF ~use_vectors
       THEN [db |-> S.db, va |-> S.va, raised |-> fts.raised, rows |-> fts.rows,
             path |-> "fts", fault |-> FALSE, mismatch |-> FALSE]
       ELSE IF va0 # "True" \/ e1 = Fail
       THEN [db |-> S.db, va |-> va0, raised |-> fts.raised, rows |-> fts.rows,
             path |-> "fallback", fault |-> e1 = Fail, mismatch |-> FALSE]
       ELSE IF r.raised
       THEN [db |-> r.db, va |-> "False", raised |-> fts.raised, rows |-> fts.rows,
             path |-> "fallback", fault |-> TRUE, mismatch |-> TRUE]
       ELSE [db |-> r.db, va |-> "True", raised |-> hy.raised, rows |-> hy.rows,
             path |-> "hybrid", fault |-> hy.raised, mismatch |-> FALSE]

\* search(query, limit, project, source, use_vectors): e1 is what the
\* embed(query) of search() does, e2 what the one of hybrid_search() does.
\* path is "fts" (use_vectors False), "hybrid", or "fallback".
search(S, query, limit, project, source, use_vectors, e1, e2) ==
    LET fts == hybrid_search(S.db, NoProvider, query, limit, project, source)
        va0 == vectors_available(S)
        ev == _ensure_vectors(S.db, e1)
        hy == hybrid_search(ev.db, e2, query, limit, project, source)
    IN IF ~use_vectors
       THEN [db |-> S.db, va |-> S.va, raised |-> fts.raised, rows |-> fts.rows,
             path |-> "fts", fault |-> FALSE, mismatch |-> FALSE]
       ELSE IF va0 # "True"
       THEN [db |-> S.db, va |-> va0, raised |-> fts.raised, rows |-> fts.rows,
             path |-> "fallback", fault |-> FALSE, mismatch |-> FALSE]
       ELSE IF e1 = Fail
       THEN [db |-> S.db, va |-> va0, raised |-> fts.raised, rows |-> fts.rows,
             path |-> "fallback", fault |-> TRUE, mismatch |-> FALSE]
       ELSE IF ~ev.ok
       THEN [db |-> ev.db, va |-> ev.va, raised |-> fts.raised, rows |-> fts.rows,
             path |-> "fallback", fault |-> TRUE, mismatch |-> TRUE]
       ELSE IF hy.raised
       THEN [db |-> ev.db, va |-> ev.va, raised |-> fts.raised, rows |-> fts.rows,
             path |-> "fallback", fault |-> TRUE, mismatch |-> FALSE]
       ELSE [db |-> ev.db, va |-> ev.va, raised |-> FALSE, rows |-> hy.rows,
             path |-> "hybrid", fault |-> FALSE, mismatch |-> FALSE]

\* _should_use_semantic(semantic_mode): provider is config.embedding.provider,
\* warm what the readiness probe _ollama_warm() answers
\* a _should_use_semantic that takes an ollama backend for ready without
\* looking at the probe's answer
_should_use_semantic_IgnoresProbe(semantic_mode, provider, warm) ==
    semantic_mode # "never"

_should_use_semantic(semantic_mode, provider, warm) ==
    IF semantic_mode = "never" THEN FALSE
    ELSE IF semantic_mode = "always" THEN TRUE
    ELSE IF provider = "ollama" THEN warm
    ELSE TRUE

\* whether _should_use_semantic calls the readiness probe _ollama_warm()
Probes(semantic_mode, provider) ==
    semantic_mode \notin {"never", "always"} /\ provider = "ollama"

\* the mode get_context works with: the configured default for None, auto
\* for a name that is no mode
EffectiveMode(semantic_mode, default) ==
    LET given == IF semantic_mode = None THEN default ELSE semantic_mode
    IN IF given \notin {"auto", "always", "never"} THEN "auto" ELSE given

\* the embed(query) calls of one search(): none on the full-text path or
\* when the vectors are not available, one when the first call or
\* _ensure_vectors fails, else the second one in hybrid_search
EmbedCalls(sr, e1) ==
    IF sr.path = "fts" \/ (sr.path = "fallback" /\ ~sr.fault) THEN <<>>
    ELSE IF e1 = Fail \/ sr.mismatch THEN <<"embed">>
    ELSE <<"embed", "embed">>

RECURSIVE TopUp_KeepsSeen(_, _, _, _)
\* a top-up loop that appends the recent rows without looking at seen
TopUp_KeepsSeen(results, recent, seen, limit) ==
    IF recent = <<>> THEN results
    ELSE IF Len(results) + 1 >= limit THEN Append(results, Head(recent))
    ELSE TopUp_KeepsSeen(Append(results, Head(recent)), Tail(recent), seen, limit)

RECURSIVE TopUp(_, _, _, _)
\* the for loop of get_context over the recent rows; seen is the set of
\* identifiers of the search results
TopUp(results, recent, seen, limit) ==
    IF recent = <<>> THEN results
    ELSE IF Head(recent).id \in seen THEN TopUp(results, Tail(recent), seen, limit)
    ELSE IF Len(results) + 1 >= limit THEN Append(results, Head(recent))
    ELSE TopUp(Append(results, Head(recent)), Tail(recent), seen, limit)

\* get_context(limit, project, source, query, semantic_mode, topup_recent);
\* query is None when no query is given; env is the configured default
\* mode and provider name, the probe's answer, and what the two
\* embed(query) calls of search() do (e1, e2).  rows is the pointer list,
\* total the count, calls the probe and embed calls made, in call order.
get_context(S, limit, project, source, query, semantic_mode, topup_recent, env) ==
    LET total == count_memories(S.db, project, source)
        mode == EffectiveMode(semantic_mode, env.semantic)
        use_vectors == _should_use_semantic(mode, env.provider, env.warm)
        sr == search(S, query, limit, project, source, use_vectors,
                     IF use_vectors THEN env.e1 ELSE Fail,
                     IF use_vectors THEN env.e2 ELSE Fail)
        recent == list_recent(S.db, limit, project, source)
    IN IF query # None
       THEN [db |-> sr.db, va |-> sr.va, total |-> total, found |-> sr.rows,
             rows |-> IF topup_recent /\ Len(sr.rows) < limit
                      THEN TopUp(sr.rows, recent,
                                 {sr.rows[i].id : i \in 1..Len(sr.rows)}, limit)
                      ELSE sr.rows,
             calls |-> (IF Probes(mode, env.provider) THEN <<"probe">> ELSE <<>>)
                       \o EmbedCalls(sr, env.e1)]
       ELSE [db |-> S.db, va |-> S.va, total |-> total, found |-> <<>>,
             rows |-> recent, calls |-> <<>>]

\* delete() that catches the AmbiguousIdFault and reports "not found"
delete_SwallowsAmbiguity(S, memory_id) ==
    LET r == delete_memory(S.db, memory_id)
    IN [db |-> r.db, vault |-> S.vault, result |-> r.result, raised |-> FALSE]

\* delete() that also takes the record's section out of the mirror files
delete_EditsMirror(S, memory_id) ==
    LET r == delete_memory(S.db, memory_id)
        gone == {S.db.memories[i].id : i \in MatchingIds(S.db, memory_id)}
    IN [db |-> r.db,
        vault |-> IF r.result
                  THEN [p \in DOMAIN S.vault |->
                          [S.vault[p] EXCEPT
                             !.body = Filter(@, LAMBDA l : l.of \notin gone)]]
                  ELSE S.vault,
        result |-> r.result, raised |-> r.raised]

delete(S, memory_id) ==
    LET r == delete_memory(S.db, memory_id)
    IN [db |-> r.db, vault |-> S.vault, result |-> r.result, raised |-> r.raised]

RECURSIVE ReindexLoop(_, _, _, _)
\* the for loop of reindex(): outs[i] is what embed() does for the i-th
\* memory; an exception of embed() or insert_vector() leaves the loop
ReindexLoop(db, memories, i, outs) ==
    IF i > Len(memories) THEN [db |-> db, raised |-> FALSE, count |-> Len(memories)]
    ELSE IF outs[i] = Fail THEN [db |-> db, raised |-> TRUE, count |-> i - 1]
    ELSE LET iv == insert_vector(db, memories[i].rowid,
                                 Vector(outs[i].len, embed_text(memories[i])))
         IN IF iv.raised THEN [db |-> db, raised |-> TRUE, count |-> i - 1]
            ELSE ReindexLoop(iv.db, memories, i + 1, outs)

\* reindex() without its last assignment, self._vectors_available = True
reindex_StaleFlag(S, probe, outs) ==
    IF probe = Fail
    THEN [db |-> S.db, va |-> S.va, raised |-> TRUE, count |-> 0, dim |-> NoDim]
    ELSE LET db1 == _create_vec_table(
                        set_embedding_dim(drop_vec_table(S.db), probe.len), probe.len)
             loop == ReindexLoop(db1, list_all_for_reindex(db1), 1, outs)
         IN [db |-> loop.db, va |-> S.va, raised |-> loop.raised,
             count |-> IF loop.raised THEN 0 ELSE loop.count,
             dim |-> IF loop.raised THEN NoDim ELSE probe.len]

\* a reindex() that drops the vector table before it probes the dimension
reindex_DropsFirst(S, probe, outs) ==
    IF probe = Fail
    THEN [db |-> drop_vec_table(S.db), va |-> S.va, raised |-> TRUE, count |-> 0,
          dim |-> NoDim]
    ELSE LET dim == probe.len
             db1 == _create_vec_table(
                        set_embedding_dim(drop_vec_table(S.db), dim), dim)
             loop == ReindexLoop(db1, list_all_for_reindex(db1), 1, outs)
         IN IF loop.raised
            THEN [db |-> loop.db, va |-> S.va, raised |-> TRUE, count |-> 0,
                  dim |-> NoDim]
            ELSE [db |-> loop.db, va |-> "True", raised |-> FALSE,
                  count |-> loop.count, dim |-> dim]

\* reindex(): probe is what embed("dimension probe") does
reindex(S, probe, outs) ==
    IF probe = Fail
    THEN [db |-> S.db, va |-> S.va, raised |-> TRUE, count |-> 0, dim |-> NoDim]
    ELSE LET dim == probe.len
             db1 == _create_vec_table(
                        set_embedding_dim(drop_vec_table(S.db), dim), dim)
             loop == ReindexLoop(db1, list_all_for_reindex(db1), 1, outs)
         IN IF loop.raised
            THEN [db |-> loop.db, va |-> S.va, raised |-> TRUE, count |-> 0,
                  dim |-> NoDim]
            ELSE [db |-> loop.db, va |-> "True", raised |-> FALSE,
                  count |-> loop.count, dim |-> dim]

(* ------------------------------------------------------------------ *)
(* State                                                                *)
(* ------------------------------------------------------------------ *)
VARIABLES
    db,                   \* self.db
    vault,                \* the mirror file of each project (one day)
    _vectors_available,   \* self._vectors_available
    providerDim,          \* output dimension of the configured embedding model
    last,                 \* the last operation, its arguments and its outcome
    embedLog,             \* per rowid: length of the record's latest embedding,
                          \* NoDim when its latest embed() failed
    issued                \* number of identifiers handed out so far

vars == <<db, vault, _vectors_available, providerDim, last,
          embedLog, issued>>

Service == [db |-> db, vault |-> vault, va |-> _vectors_available]

\* last: the operation, whether it raised to its caller, and what happened
\* in it: path and fault of a search, mismatch (a DimensionMismatchError was
\* caught) and stored (a vector row was written) of a save, result of a
\* delete; of a reindex its count, whether the probe failed (fault), the
\* recorded dimension before it (dim0) and the number of records that
\* had no vector row before it and have one after it (gained)
NoOp ==
    [op |-> "init", raised |-> FALSE, path |-> None, fault |-> FALSE,
     mismatch |-> FALSE, stored |-> FALSE, result |-> FALSE, count |-> 0,
     dim0 |-> NoDim, gained |-> 0]

\* what embed() can do on one call: raise, or a vector of the model's dimension
Providers == {Fail, Vector(providerDim, <<>>)}

Raws ==
    [title : Titles, what : Whats, source : Sources, category : Categories,
     tags : {<<>>}, details : Bodies]

Init ==
    /\ db = EmptyDB
    /\ vault = [p \in Projects |-> NoFile]
    /\ _vectors_available = None
    /\ providerDim \in Dims
    /\ last = NoOp
    /\ embedLog = <<>>
    /\ issued = 0

(* ------------------------------------------------------------------ *)
(* Operations                                                           *)
(* ------------------------------------------------------------------ *)
Save ==
    /\ db.nextRowid <= MaxSaves
    /\ \E raw \in Raws, project \in Projects, provider \in Providers :
         \E r \in {save(Service, raw, project, IdSeq[issued + 1], provider)} :
            /\ db' = r.db
            /\ vault' = r.vault
            /\ _vectors_available' = r.va
            /\ issued' = issued + 1
            /\ embedLog' = Append(embedLog, provider.len)
            /\ last' = [NoOp EXCEPT !.op = "save", !.raised = r.raised,
                                    !.mismatch = r.mismatch, !.stored = r.stored]
    /\ UNCHANGED <<providerDim>>

Search ==
    /\ \E query \in Terms, limit \in 1..MaxLimit, project \in {None},
          source \in {None}, use_vectors \in BOOLEAN :
       \E e1 \in (IF use_vectors THEN Providers ELSE {Fail}) :
       \E e2 \in (IF e1 # Fail THEN Providers ELSE {Fail}) :
         \E r \in {search(Service, query, limit, project, source, use_vectors,
                            IF e1 = Fail THEN Fail ELSE Vector(e1.len, <<query>>),
                            IF e2 = Fail THEN Fail ELSE Vector(e2.len, <<query>>))} :
            /\ db' = r.db
            /\ _vectors_available' = r.va
            /\ last' = [NoOp EXCEPT !.op = "search", !.raised = r.raised,
                                    !.path = r.path, !.fault = r.fault,
                                    !.mismatch = r.mismatch]
    /\ UNCHANGED <<vault, providerDim, embedLog, issued>>

Delete ==
    /\ \E memory_id \in IdPrefixes :
         \E r \in {delete(Service, memory_id)} :
            /\ db' = r.db
            /\ vault' = r.vault
            /\ last' = [NoOp EXCEPT !.op = "delete", !.raised = r.raised,
                                    !.result = r.result]
    /\ UNCHANGED <<_vectors_available, providerDim,
                   embedLog, issued>>

Reindex ==
    /\ \E probe \in Providers, outs \in [1..Len(db.memories) -> Providers] :
         \E r \in {reindex(Service, probe, outs)} :
         LET done == IF probe = Fail THEN 0
                     ELSE IF \E i \in 1..Len(outs) : outs[i] = Fail
                     THEN CHOOSE i \in 1..Len(outs) :
                            outs[i] = Fail /\ \A j \in 1..(i - 1) : outs[j] # Fail
                     ELSE Len(outs)
         IN /\ db' = r.db
            /\ _vectors_available' = r.va
            /\ embedLog' = [rid \in 1..Len(embedLog) |->
                              IF \E i \in 1..done : db.memories[i].rowid = rid
                              THEN outs[CHOOSE i \in 1..done :
                                          db.memories[i].rowid = rid].len
                              ELSE embedLog[rid]]
            /\ last' = [NoOp EXCEPT !.op = "reindex", !.raised = r.raised,
                                    !.count = r.count,
                                    !.fault = (probe = Fail), !.dim0 = db.dim,
                                    !.gained = Cardinality(
                                        {i \in 1..Len(db.memories) :
                                           /\ ~HasVector(db, db.memories[i].rowid)
                                           /\ HasVector(r.db, db.memories[i].rowid)})]
    /\ UNCHANGED <<vault, providerDim, issued>>

\* the operator configures another embedding model
SetEmbeddingModel ==
    /\ \E d \in Dims \ {providerDim} : providerDim' = d
    /\ last' = [NoOp EXCEPT !.op = "model"]
    /\ UNCHANGED <<db, vault, _vectors_available, embedLog, issued>>

Next == Save \/ Search \/ Delete \/ Reindex \/ SetEmbeddingModel

Spec == Init /\ [][Next]_vars

(* ------------------------------------------------------------------ *)
(* Properties                                                           *)
(* ------------------------------------------------------------------ *)
\* the rowid and the identifier of the record a save() step has just written
NewRowid == db.nextRowid
NewId == IdSeq[issued + 1]

HasRow(d, id) == \E i \in 1..Len(d.memories) : d.memories[i].id = id

\* the file holds the title line of the record's section
HasSection(file, id) ==
    \E i \in 1..Len(file.body) : file.body[i].k = "h3" /\ file.body[i].of = id

\* the embed() call of a save() step raised, or returned a vector whose
\* length is not the dimension of the existing vector table
BestEffortFailed ==
    LET len == embedLog'[Len(embedLog')]
    IN len = NoDim \/ (has_vec_table(db) /\ db.dim # len)

\* C1: a save() whose mirror write and Index insert succeed and whose
\* best-effort segment fails (embed() raises, or the dimension mismatches)
\* does not raise: the Index row and the mirror section exist, and no vector
\* row is added
C1_SaveSurvivesEmbeddingFailure ==
    [][(last'.op = "save" /\ issued' = issued + 1 /\ BestEffortFailed)
         => /\ ~last'.raised
            /\ ~last'.stored
            /\ HasRow(db', NewId)
            /\ \E p \in Projects : HasSection(vault'[p], NewId)
            /\ ~HasVector(db', NewRowid)
            /\ db'.vec = db.vec]_vars

\* a save() under a dimension mismatch has returned: row and section are
\* there, the vector row is not
C1_Witness ==
    /\ last.op = "save"
    /\ last.mismatch
    /\ ~last.raised
    /\ \E i \in 1..Len(db.memories) :
         /\ db.memories[i].rowid = db.nextRowid - 1
         /\ ~HasVector(db, db.memories[i].rowid)
         /\ HasSection(vault[db.memories[i].project], db.memories[i].id)

\* the arguments of search() and what the two embed() calls can do
QueryVectors(query) == {Fail, Vector(providerDim, <<query>>)}
ProjectArgs == {None, "p1"}        \* no filter, the project of the records
SourceArgs == {None, "codex"}      \* no filter, a source no record has

\* the vector path can answer: both embed() calls return, and the vector
\* table is READY at their dimension
VectorPathWorks(e1, e2) ==
    /\ e1 # Fail
    /\ e2 # Fail
    /\ db.vecState = "READY"
    /\ db.dim = e1.len
    /\ db.dim = e2.len

\* C2: search() with the vector path enabled never raises, and whenever the
\* vector path faults it returns exactly what search(use_vectors=False)
\* returns for the same query, limit, project and source
C2_SearchFallsBackToFullText ==
    \A query \in Terms, limit \in 1..MaxLimit, project \in ProjectArgs,
       source \in SourceArgs :
      \A f \in {search(Service, query, limit, project, source, FALSE, Fail, Fail)} :
      \A e1 \in QueryVectors(query) :
      \A e2 \in (IF e1 = Fail THEN {Fail} ELSE QueryVectors(query)) :
      \A r \in {search(Service, query, limit, project, source, TRUE, e1, e2)} :
        /\ ~r.raised
        /\ ~VectorPathWorks(e1, e2) => r.rows = f.rows

\* a search() has fallen back after a fault of the vector path, with records
\* in the Index and a vector table holding rows
C2_Witness ==
    /\ last.op = "search"
    /\ last.fault
    /\ last.path = "fallback"
    /\ ~last.raised
    /\ db.memories # <<>>
    /\ db.vec # {}

\* C3: a vector row exists for an Index record if and only if the latest
\* embedding of that record succeeded with the active dimension, and all
\* vector rows have the active dimension
C3_VectorRowIffEmbedded ==
    /\ \A i \in 1..Len(db.memories) :
         LET rid == db.memories[i].rowid
         IN HasVector(db, rid) <=> (embedLog[rid] # NoDim /\ embedLog[rid] = db.dim)
    /\ \A r \in db.vec : r.vector.len = db.dim

ServiceNext == [db |-> db', vault |-> vault', va |-> _vectors_available']

\* C4: when reindex() returns, the vector table is READY at the provider's
\* dimension, every Index record has a vector row of that dimension, and
\* search() takes the hybrid path again
C4_ReindexRebuildsAtNewDimension ==
    [][(last'.op = "reindex" /\ ~last'.raised)
         => /\ db'.vecState = "READY"
            /\ db'.dim = providerDim
            /\ \A i \in 1..Len(db'.memories) :
                 /\ HasVector(db', db'.memories[i].rowid)
                 /\ VectorOf(db', db'.memories[i].rowid).len = providerDim
            /\ \A r \in db'.vec : r.vector.len = providerDim
            /\ db'.memories = db.memories
            /\ _vectors_available' = "True"
            /\ \A query \in Terms, limit \in 1..MaxLimit :
                 search(ServiceNext, query, limit, None, None, TRUE,
                        Vector(providerDim, <<query>>),
                        Vector(providerDim, <<query>>)).path = "hybrid"]_vars

\* a reindex() has returned after the table had another dimension, and a
\* record that had no vector row has one now
C4_Witness ==
    /\ last.op = "reindex"
    /\ ~last.raised
    /\ last.dim0 \notin {NoDim, db.dim}
    /\ last.gained >= 1
    /\ db.dim = providerDim
    /\ \A i \in 1..Len(db.memories) : HasVector(db, db.memories[i].rowid)

\* C5: a reindex() whose probe succeeds returns normally whatever embed()
\* does for the single records: its count is the number of records whose
\* embed() succeeded, and each of these has a vector row
C5_ReindexToleratesFailures ==
    \A outs \in [1..Len(db.memories) -> Providers] :
      LET r == reindex(Service, Vector(providerDim, <<>>), outs)
          ok == {i \in 1..Len(db.memories) : outs[i] # Fail}
      IN /\ ~r.raised
         /\ r.count = Cardinality(ok)
         /\ \A i \in ok : HasVector(r.db, db.memories[i].rowid)

\* the embed() call of a save() step returned a vector whose length is not
\* the dimension of the existing vector table
SaveCalledEnsureWithOtherDim ==
    /\ last'.op = "save"
    /\ issued' = issued + 1
    /\ has_vec_table(db)
    /\ embedLog'[Len(embedLog')] \notin {NoDim, db.dim}

\* C6: when a vector table exists at dimension d and save() or search() calls
\* ensure_vec_table(d') with d' # d, the DimensionMismatchFault is raised
\* (and caught by _ensure_vectors), the state becomes MISMATCHED, and the
\* table, its rows and the recorded dimension d are unchanged
C6_MismatchLeavesTableUntouched ==
    /\ [][(SaveCalledEnsureWithOtherDim \/ (last'.op = "search" /\ last'.mismatch))
            => /\ last'.mismatch
               /\ has_vec_table(db)
               /\ db.dim # providerDim
               /\ db'.vecState = "MISMATCHED"
               /\ db'.vec = db.vec
               /\ db'.dim = db.dim
               /\ _vectors_available' = "False"]_vars
    /\ [](has_vec_table(db) =>
            \A d \in Dims \ {db.dim} :
              LET r == _ensure_vectors(db, Vector(d, <<>>))
              IN /\ ~r.ok
                 /\ r.va = "False"
                 /\ r.db = [db EXCEPT !.vecState = "MISMATCHED"])

\* a save() or search() has hit a mismatch on a table that holds rows
C6_Witness ==
    /\ last.op \in {"save", "search"}
    /\ last.mismatch
    /\ db.vecState = "MISMATCHED"
    /\ db.vec # {}
    /\ db.dim # providerDim

\* C7: ensureDimension(d) is idempotent: on ABSENT it creates the table and
\* the state is READY(d); a further call with the same d, and any call with
\* the dimension of the existing table, changes nothing and succeeds
C7_EnsureDimensionIdempotent ==
    \A d \in Dims :
      LET r1 == _ensure_vectors(db, Vector(d, <<>>))
          r2 == _ensure_vectors(r1.db, Vector(d, <<>>))
      IN /\ db.vecState = "ABSENT"
              => /\ r1.ok
                 /\ r1.db = [db EXCEPT !.vecState = "READY", !.dim = d, !.vec = {}]
         /\ (has_vec_table(db) /\ db.dim = d) => (r1.ok /\ r1.db = db)
         /\ r1.ok => (r2.ok /\ r2.db = r1.db /\ r2.va = r1.va)

\* two save() calls have called ensure_vec_table with the same dimension:
\* the first created the table, the second kept it and its row
C7_Witness ==
    /\ last.op = "save"
    /\ last.stored
    /\ db.vecState = "READY"
    /\ Cardinality(db.vec) >= 2

Matches(prefix) ==
    {i \in 1..Len(db.memories) :
       /\ Len(prefix) <= Len(db.memories[i].id)
       /\ \A k \in 1..Len(prefix) : db.memories[i].id[k] = prefix[k]}

\* C9: delete(idOrPrefix) removes the record and returns true when exactly
\* one Index record matches, returns false and changes nothing when none
\* matches, and raises AmbiguousIdFault and removes nothing when more than
\* one matches
C9_DeleteByPrefix ==
    \A prefix \in IdPrefixes :
      LET r == delete(Service, prefix)
          n == Cardinality(Matches(prefix))
      IN /\ n = 1 =>
              LET i == CHOOSE j \in Matches(prefix) : TRUE
              IN /\ r.result
                 /\ ~r.raised
                 /\ r.db.memories = SubSeq(db.memories, 1, i - 1)
                                    \o SubSeq(db.memories, i + 1, Len(db.memories))
         /\ n = 0 => (~r.result /\ ~r.raised /\ r.db = db)
         /\ n > 1 => (r.raised /\ ~r.result /\ r.db = db)

\* a delete() with a prefix of two records has raised, and both are still
\* in the Index
C9_Witness ==
    /\ last.op = "delete"
    /\ last.raised
    /\ Cardinality(Matches(<<1>>)) = 2

\* the records that were saved and are no longer in the Index; the k-th
\* save() gave its record the rowid k and the identifier IdSeq[k]
Deleted == {k \in 1..issued : ~HasRow(db, IdSeq[k])}

RowIds(rows) == {rows[i].id : i \in 1..Len(rows)}

\* C10: a successful delete removes the Index row and the vector row of the
\* record and leaves every mirror file unchanged; afterwards no search
\* (full-text or hybrid) returns the deleted identifier and no reindex()
\* creates a vector row for it
C10_DeleteKeepsMirror ==
    /\ \A prefix \in IdPrefixes :
         LET r == delete(Service, prefix)
         IN r.result =>
              LET i == CHOOSE j \in Matches(prefix) : TRUE
              IN /\ r.vault = vault
                 /\ ~HasRow(r.db, db.memories[i].id)
                 /\ ~HasVector(r.db, db.memories[i].rowid)
                 /\ r.db.vec = {v \in db.vec : v.rowid # db.memories[i].rowid}
    /\ \A k \in Deleted : ~HasVector(db, k)
    /\ \A query \in Terms, limit \in 1..MaxLimit, project \in ProjectArgs,
          use_vectors \in BOOLEAN :
         \A e \in QueryVectors(query) :
           \A ids \in {RowIds(search(Service, query, limit, project, None,
                                     use_vectors, e, e).rows)} :
             \A k \in Deleted : IdSeq[k] \notin ids
    /\ \A probe \in Providers, outs \in [1..Len(db.memories) -> Providers] :
         \A x \in {reindex(Service, probe, outs)} :
           \A k \in Deleted : ~HasVector(x.db, k) /\ ~HasRow(x.db, IdSeq[k])

\* a delete() has removed a record whose section is still in the mirror,
\* while the vector table exists and another record is left to search
C10_Witness ==
    /\ last.op = "delete"
    /\ last.result
    /\ has_vec_table(db)
    /\ db.vec # {}
    /\ \E k \in Deleted :
         /\ embedLog[k] = db.dim
         /\ \E p \in Projects : HasSection(vault[p], IdSeq[k])

(* ------------------------------------------------------------------ *)
(* redact() on its own: a text and a list of extra patterns are chosen, *)
(* and redact() is applied to the text again and again                  *)
(* ------------------------------------------------------------------ *)
Pieces == {"<reda", "</reda", "cted>", "-----BEGIN ", "PRIVATE KEY-----", "acme"}

TextsUpTo(n) == UNION {[1..k -> Pieces] : k \in 0..n}

\* the lists of patterns a .memoryignore file gives
ExtraPatterns == {<<>>, <<(<<"acme">>)>>}

InitRedact ==
    /\ db = EmptyDB
    /\ vault = [p \in Projects |-> NoFile]
    /\ _vectors_available = None
    /\ providerDim = 2
    /\ embedLog = <<>>
    /\ issued = 0
    /\ \E text \in TextsUpTo(MaxText), extra_patterns \in ExtraPatterns :
         last = [op |-> "text", text |-> text, extra_patterns |-> extra_patterns,
                 n |-> 0]

Redact ==
    /\ last.n < MaxRedacts
    /\ last' = [last EXCEPT !.op = "redact",
                            !.text = redact(@, last.extra_patterns),
                            !.n = @ + 1]
    /\ UNCHANGED <<db, vault, _vectors_available, providerDim, embedLog, issued>>

NextRedact == Redact

SpecRedact == InitRedact /\ [][NextRedact]_vars

\* C15: redact is idempotent: redact() applied to a text that redact()
\* returned gives the same text, for every text and list of extra patterns
C15_RedactIdempotent ==
    last.op = "redact" => redact(last.text, last.extra_patterns) = last.text

(* ------------------------------------------------------------------ *)
(* save() with its collaborators' faults: every save() draws a raw      *)
(* input (empty, plain or secret-bearing texts), the enrich flag, and   *)
(* what the enrichment provider, the mirror write, the Index insert and *)
(* the embedding provider do during the call                            *)
(* ------------------------------------------------------------------ *)
MaxFullSaves == 2    \* save() calls per behaviour of SpecSave

Secret == <<"-----BEGIN ", "PRIVATE KEY-----">>

SaveTitles == {<<>>, Secret}
SaveWhats == {<<>>, Secret}
SaveDetails == {NoDetails, <<"acme">>, <<"<reda", "<reda", "cted>", "cted>">>}

SaveRaws ==
    [title : SaveTitles, what : SaveWhats, source : Sources,
     category : Categories, tags : {<<3>>}, details : SaveDetails]

Envs ==
    [enrichment : {NoEnrichment, CreateFail, ExtractFail, Extracted(<<1, 3>>)},
     mirror : {"ok", "raise"}, index : {"ok", "raise"},
     provider : {Fail, Vector(providerDim, <<>>)}]

\* last of SpecSave: the fault save() raised (None when it returned), the
\* identifier it returned, the effects it had in call order, whether a
\* vector row was written, and the details argument
NoSave ==
    [op |-> "init", fault |-> None, id |-> <<>>, calls |-> <<>>,
     stored |-> FALSE, details |-> NoDetails]

InitSave ==
    /\ db = EmptyDB
    /\ vault = [p \in Projects |-> NoFile]
    /\ _vectors_available = None
    /\ providerDim = 2
    /\ last = NoSave
    /\ embedLog = <<>>
    /\ issued = 0

SaveFull ==
    /\ issued < MaxFullSaves
    /\ \E raw \in SaveRaws, project \in Projects, enrich \in BOOLEAN, env \in Envs :
         \E r \in {MemoryService_save(Service, raw, project, enrich,
                                      IdSeq[issued + 1], env)} :
            /\ db' = r.db
            /\ vault' = r.vault
            /\ _vectors_available' = r.va
            /\ issued' = issued + 1
            /\ last' = [op |-> "save", fault |-> r.fault, id |-> r.id,
                        calls |-> r.calls, stored |-> r.stored,
                        details |-> raw.details]
    /\ UNCHANGED <<providerDim, embedLog>>

NextSave == SaveFull

SpecSave == InitSave /\ [][NextSave]_vars

\* the last effect of the save() step just taken
LastCall == last'.calls[Len(last'.calls)]

\* C11: in save() the mirror is written before the Index row and both
\* failures are fatal: when the mirror write raises, save() raises with no
\* Index row, no vector row and no embedding call; when the Index insert
\* raises, save() raises with the mirror section written and no embedding
\* call or vector insert; a save() that returns wrote the mirror first.
C11_MirrorThenIndexBothFatal ==
    [][last'.op = "save" =>
         /\ last'.fault = "StorageFault" =>
              /\ LastCall \in {"write_session_memory", "insert_memory"}
              /\ "embed" \notin Range(last'.calls)
              /\ db' = db
              /\ _vectors_available' = _vectors_available
              /\ LastCall = "write_session_memory" =>
                   "insert_memory" \notin Range(last'.calls)
              /\ LastCall = "insert_memory" =>
                   \E p \in Projects : HasSection(vault'[p], IdSeq[issued'])
         /\ "insert_memory" \in Range(last'.calls) =>
              \E i, j \in 1..Len(last'.calls) :
                 /\ i < j
                 /\ last'.calls[i] = "write_session_memory"
                 /\ last'.calls[j] = "insert_memory"]_vars

\* a save() whose Index insert raised after an earlier save() had returned:
\* the section of the failed record is in the mirror, its row is not in
\* the Index
C11_Witness ==
    /\ last.op = "save"
    /\ last.fault = "StorageFault"
    /\ last.calls[Len(last.calls)] = "insert_memory"
    /\ Len(db.memories) = 1
    /\ ~HasRow(db, IdSeq[issued])
    /\ \E p \in Projects : HasSection(vault[p], IdSeq[issued])

\* C12: a save() with an empty title or an empty `what` is rejected with a
\* ValidationFault before any write: no directory or mirror file is
\* created or changed, no Index row is inserted, and neither the
\* enrichment nor the embedding collaborator is called.
C12_RejectedBeforeAnyWrite ==
    [][last'.op = "save" /\ last'.fault = "ValidationFault" =>
         /\ vault' = vault
         /\ db' = db
         /\ "extract_tags" \notin Range(last'.calls)
         /\ "embed" \notin Range(last'.calls)]_vars

\* text holds pat as a substring
Occurs(text, pat) ==
    \E i \in 1..(Len(text) - Len(pat) + 1) : SubSeq(text, i, i + Len(pat) - 1) = pat

\* text holds a substring one of the redaction patterns matches: a built-in
\* or caller-supplied pattern, or a "<redacted>" ... "</redacted>" pair
Sensitive(text) ==
    \/ \E k \in 1..Len(SENSITIVE_PATTERNS \o ignore_patterns) :
          Occurs(text, (SENSITIVE_PATTERNS \o ignore_patterns)[k])
    \/ \E i, j \in 1..Len(text) : i < j /\ OpenTagAt(text, i) /\ CloseTagAt(text, j)

\* C13: after any save(), no free-text field of a record, as stored in its
\* Index row or as written in its mirror section, holds a substring that a
\* built-in or caller-supplied redaction pattern matches.
C13_NoSecretPersisted ==
    /\ \A i \in 1..Len(db.memories) :
          /\ ~Sensitive(db.memories[i].title)
          /\ ~Sensitive(db.memories[i].what)
          /\ ~Sensitive(db.memories[i].details)
    /\ \A p \in Projects : \A i \in 1..Len(vault[p].body) :
          vault[p].body[i].k \in {"h3", "what", "text"} =>
             ~Sensitive(vault[p].body[i].v)

\* C14: save() followed by get_details(returned id) gives redact(details)
\* for a details body, whether or not a vector row was written, and
\* nothing for a record saved without details.
C14_DetailsRoundTrip ==
    last.op = "save" /\ last.fault = None =>
       get_details(db, last.id) =
          IF Truthy(last.details) THEN redact(last.details, ignore_patterns)
          ELSE NoDetails

\* a save() with a details body the redaction changes, whose embed() failed
C14_Witness ==
    /\ last.op = "save"
    /\ last.fault = None
    /\ ~last.stored
    /\ last.details = <<"acme">>
    /\ get_details(db, last.id) = <<REDACTED>>

(* ------------------------------------------------------------------ *)
(* The mirror writer on its own: write_session_memory calls to the one  *)
(* (project, day) file, with records of every kind: with and without a  *)
(* category, with a details body that holds a heading line, and with a  *)
(* title that begins with the text of a category heading                *)
(* ------------------------------------------------------------------ *)
MaxWrites == 3       \* write_session_memory calls per behaviour

MirrorCategories == {None, "decision", "pattern", "bug"}

\* a details body of three lines, the second one a heading line
HeadingBody == <<"intro", "\n", "## Learnings", "\n", "more">>

\* per category a record with no details and one with HeadingBody, and a
\* decision whose title begins with the heading text of the bug category
\* the source of the records of each category: none, two plain agent
\* names, and a name that holds a comma
MirrorSource ==
    [c \in MirrorCategories |->
       IF c = None THEN None
       ELSE IF c = "decision" THEN "claude-code"
       ELSE IF c = "pattern" THEN "codex" ELSE "a,b"]

MirrorRaws ==
    {[title |-> <<"auth">>, what |-> <<"auth">>, source |-> MirrorSource[c],
      category |-> c, tags |-> <<1>>, details |-> NoDetails] :
        c \in MirrorCategories}
    \cup
    {[title |-> <<"auth">>, what |-> <<"auth">>, source |-> MirrorSource[c],
      category |-> c, tags |-> <<2>>, details |-> HeadingBody] :
        c \in MirrorCategories}
    \cup
    {[title |-> <<"Bugs Fixed", "in parser">>, what |-> <<"auth">>,
      source |-> MirrorSource["decision"], category |-> "decision", tags |-> <<3, 3>>,
      details |-> NoDetails]}

\* last of SpecMirror: the record of the last call (identifier, category,
\* tags) and cats, the categories of all records written, in call order
NoWrite ==
    [op |-> "init", id |-> <<>>, category |-> None, tags |-> <<>>,
     cats |-> <<>>]

InitMirror ==
    /\ db = EmptyDB
    /\ vault = [p \in Projects |-> NoFile]
    /\ _vectors_available = None
    /\ providerDim = 2
    /\ last = NoWrite
    /\ embedLog = <<>>
    /\ issued = 0

Write ==
    /\ issued < MaxWrites
    /\ \E raw \in MirrorRaws, project \in Projects :
         \E mem \in {from_raw(raw, project, IdSeq[issued + 1])} :
            /\ vault' = [vault EXCEPT ![project] =
                           write_session_memory(@, mem, raw.details)]
            /\ issued' = issued + 1
            /\ last' = [op |-> "write", id |-> mem.id, category |-> mem.category,
                        tags |-> mem.tags, cats |-> Append(last.cats, mem.category)]
    /\ UNCHANGED <<db, _vectors_available, providerDim, embedLog>>

NextMirror == Write

SpecMirror == InitMirror /\ [][NextMirror]_vars

\* C16: writing a record with tags T2 to an existing file whose frontmatter
\* tags are T1 leaves the sorted union of T1 and T2 with case-insensitive
\* duplicates removed: two tags that differ only in letter case appear once.
C16_TagsMergedCaseInsensitively ==
    [][\A p \in Projects :
         last'.op = "write" /\ vault[p].exists =>
            LET T == vault'[p].tags
                U == Range(vault[p].tags) \cup Range(last'.tags)
            IN /\ \A i \in 1..(Len(T) - 1) : T[i] < T[i + 1]
               /\ Range(T) \subseteq U
               /\ {Lower(t) : t \in Range(T)} = {Lower(t) : t \in U}
               /\ \A i, j \in 1..Len(T) : i < j => Lower(T[i]) # Lower(T[j])]_vars

\* the category heading lines the writer put into a body, in file order
WriterHeadings(body) == SelectSeq(body, LAMBDA l : l.k = "h2" /\ l.of = <<>>)

\* the canonical rank of the category a heading text stands for
Rank(heading) ==
    CategoryIndex(CHOOSE c \in Range(VALID_CATEGORIES) :
                     CATEGORY_HEADINGS[c] = heading)

\* C17: after any sequence of writes to one file the category headings
\* the writer made appear in strictly increasing canonical rank, so each of
\* them at most once.
C17_HeadingsInCanonicalOrder ==
    \A p \in Projects :
       \A i \in 1..(Len(WriterHeadings(vault[p].body)) - 1) :
          Rank(WriterHeadings(vault[p].body)[i].v)
             < Rank(WriterHeadings(vault[p].body)[i + 1].v)

\* the lines of a body that were rendered for the record id
SectionIdx(body, id) == {i \in 1..Len(body) : body[i].of = id}

\* the part of a body from the first to the last line of the record id
Section(body, id) ==
    IF SectionIdx(body, id) = {} THEN <<>>
    ELSE SubSeq(body,
                CHOOSE i \in SectionIdx(body, id) : \A j \in SectionIdx(body, id) : i <= j,
                CHOOSE i \in SectionIdx(body, id) : \A j \in SectionIdx(body, id) : j <= i)

\* the identifiers of the title lines of a body, in file order
TitleOrder(body) ==
    [i \in 1..Len(SelectSeq(body, LAMBDA l : l.k = "h3")) |->
       SelectSeq(body, LAMBDA l : l.k = "h3")[i].of]

\* C18: the writer is append-only: after a write to an existing file every
\* section that was in the file is still there with the same lines, not
\* split by inserted text, and the old sections keep their relative order.
C18_AppendOnly ==
    [][\A p \in Projects :
         last'.op = "write" /\ vault[p].exists =>
            /\ \A k \in 1..issued :
                  Section(vault'[p].body, IdSeq[k]) = Section(vault[p].body, IdSeq[k])
            /\ SelectSeq(TitleOrder(vault'[p].body), LAMBDA id : id # last'.id)
                  = TitleOrder(vault[p].body)]_vars

\* C19: a record without a category is written as the last section of the
\* file, and after any later writes no line of it lies behind a category
\* heading, that is between a heading and the next heading or the end of
\* the file.
C19_UncategorizedOutsideHeadings ==
    \A p \in Projects :
       /\ last.op = "write" /\ last.category = None =>
             \A i \in 1..Len(vault[p].body) :
                vault[p].body[i].k = "h3" =>
                   \E j \in i..Len(vault[p].body) : vault[p].body[j].of = last.id
       /\ \A k \in 1..issued :
             last.cats[k] = None =>
                \A i \in SectionIdx(vault[p].body, IdSeq[k]) :
                   \A j \in 1..(i - 1) :
                      ~(vault[p].body[j].k = "h2" /\ vault[p].body[j].of = <<>>)

\* the title lines of a body between the lines a and b
TitlesBetween(body, a, b) == {i \in a..b : body[i].k = "h3"}

\* C20: consecutive writes for one project and day go to one file with
\* one day heading; a decision record followed by a bug record leaves the
\* Decisions heading before the Bugs Fixed heading with one record section
\* under each.
C20_OneFileDecisionThenBug ==
    [][\A p \in Projects :
         last'.op = "write" =>
            /\ vault'[p].exists
            /\ Cardinality({i \in 1..Len(vault'[p].body) :
                              vault'[p].body[i].k = "h1"}) = 1
            /\ issued = 1 /\ last.category = "decision" /\ last'.category = "bug" =>
                 \E a, b \in 1..Len(vault'[p].body) :
                    /\ a < b
                    /\ IsHeading(vault'[p].body[a], "Decisions")
                    /\ IsHeading(vault'[p].body[b], "Bugs Fixed")
                    /\ Cardinality(TitlesBetween(vault'[p].body, a, b)) = 1
                    /\ Cardinality(TitlesBetween(vault'[p].body, b,
                                                 Len(vault'[p].body))) = 1]_vars

(* ------------------------------------------------------------------ *)
(* The hybrid ranker on its own: merge_results applied to every pair    *)
(* of result lists of at most MaxHits entries.  An entry is [id,        *)
(* created_at, score]; the record with the greater id was created       *)
(* later.  A list may hold an identifier twice.                         *)
(* ------------------------------------------------------------------ *)
MaxHits == 2         \* entries in a result list given to merge_results

MergeIds == {1, 2}
MergeScores == {0, 1, 2}

MergeHits ==
    {[id |-> i, created_at |-> i, score |-> <<n, 1>>] :
        i \in MergeIds, n \in MergeScores}

ResultLists == UNION {[1..k -> MergeHits] : k \in 0..MaxHits}

InitMerge ==
    /\ db = EmptyDB
    /\ vault = [p \in Projects |-> NoFile]
    /\ _vectors_available = None
    /\ providerDim = 2
    /\ last \in [op : {"lists"}, fts_results : ResultLists,
                 vec_results : ResultLists, limit : 1..MaxLimit, rows : {<<>>}]
    /\ embedLog = <<>>
    /\ issued = 0

Merge ==
    /\ last.op = "lists"
    /\ last' = [last EXCEPT
                  !.op = "merge",
                  !.rows = merge_results(last.fts_results, last.vec_results,
                                         last.limit)]
    /\ UNCHANGED <<db, vault, _vectors_available, providerDim, embedLog, issued>>

\* the full-text-only mode on a full-text list, no vector list being there
FtsOnly ==
    /\ last.op = "lists"
    /\ last.vec_results = <<>>
    /\ last' = [last EXCEPT !.op = "fts_only",
                            !.rows = fts_only(last.fts_results, last.limit)]
    /\ UNCHANGED <<db, vault, _vectors_available, providerDim, embedLog, issued>>

NextMerge == Merge \/ FtsOnly

SpecMerge == InitMerge /\ [][NextMerge]_vars

\* the identifiers of a result list, in list order
Ids(xs) == [i \in 1..Len(xs) |-> xs[i].id]

\* no identifier occurs twice in the list, as in a result list of the Index
DistinctIds(xs) == \A i, j \in 1..Len(xs) : i # j => xs[i].id # xs[j].id

\* the normalized score of identifier id in the list xs
NormOf(xs, id) == Normalize(xs)[IndexOfId(xs, id)].score

\* C22: with an empty vector list the ranker's output is the full-text
\* list in the order of its normalized scores, and with an empty full-text
\* list it is the vector list in the order of its normalized weighted
\* scores, both cut to limit.
C22_OneEmptyListKeepsTheOtherOrder ==
    last.op = "merge" /\ DistinctIds(last.fts_results)
                      /\ DistinctIds(last.vec_results) =>
       /\ last.vec_results = <<>> =>
             Ids(last.rows) =
                Ids(Take(SortDesc(Normalize(last.fts_results)), last.limit))
       /\ last.fts_results = <<>> =>
             Ids(last.rows) =
                Ids(Take(SortDesc([i \in 1..Len(last.vec_results) |->
                                     [Normalize(last.vec_results)[i] EXCEPT
                                        !.score = RatMul(vec_weight, @)]]),
                         last.limit))

\* an empty vector list and a full-text list whose second entry has the
\* higher score: the output starts with the second entry
C22_Witness ==
    /\ last.op = "merge"
    /\ last.vec_results = <<>>
    /\ Len(last.fts_results) = 2
    /\ DistinctIds(last.fts_results)
    /\ RatLess(last.fts_results[1].score, last.fts_results[2].score)
    /\ Len(last.rows) = 2
    /\ last.rows[1].id = last.fts_results[2].id

\* C23: of two identifiers with equal combined scores the ranker puts the
\* record with the later creation timestamp first, in whatever order the
\* two stand in the input lists.
C23_TieBreakLaterCreatedFirst ==
    last.op = "merge" =>
       \A i, j \in 1..Len(last.rows) :
          i < j /\ RatEq(last.rows[i].score, last.rows[j].score) =>
             last.rows[i].created_at >= last.rows[j].created_at

C30_SortedDistinctTruncated ==
    last.op = "merge" =>
       /\ \A i, j \in 1..Len(last.rows) :
             i < j => ~RatLess(last.rows[i].score, last.rows[j].score)
       /\ DistinctIds(last.rows)
       /\ Len(last.rows) <= last.limit

\* an identifier twice in the vector list and once in the full-text list,
\* another identifier beside it, and more identifiers than limit
C30_Witness ==
    /\ last.op = "merge"
    /\ Len(last.vec_results) = 2
    /\ last.vec_results[1].id = last.vec_results[2].id
    /\ IndexOfId(last.fts_results, last.vec_results[1].id) # 0
    /\ ~DistinctIds(last.fts_results \o last.vec_results)
    /\ \E i \in 1..Len(last.fts_results) :
          last.fts_results[i].id # last.vec_results[1].id
    /\ Len(last.rows) = 1
    /\ last.limit = 1

(* ------------------------------------------------------------------ *)
(* search() and get_context() over an Index whose records differ in     *)
(* relevance, project and source: src/memory/core.py 281-415            *)
(* ------------------------------------------------------------------ *)
MaxIndexed == 2      \* saves before the searches
SearchProjects == {"p1", "p2"}

\* the saves: a strong and a weak hit for "auth" in project p1 from codex,
\* a strong one in another project, a strong one from another source, all
\* embedded, and a weak one whose embedding fails
Indexed ==
    {[title |-> <<"auth">>, project |-> "p1", source |-> "codex", embeds |-> TRUE],
     [title |-> <<"cache">>, project |-> "p1", source |-> "codex", embeds |-> TRUE],
     [title |-> <<"auth">>, project |-> "p2", source |-> "codex", embeds |-> TRUE],
     [title |-> <<"auth">>, project |-> "p1", source |-> "claude-code", embeds |-> TRUE],
     [title |-> <<"cache">>, project |-> "p1", source |-> "codex", embeds |-> FALSE]}

SearchRaw(k) ==
    [title |-> k.title, what |-> <<"auth">>, source |-> k.source,
     category |-> "decision", tags |-> <<>>, details |-> NoDetails]

\* the ways a search can go: without vectors, or with them and what the
\* two embed(query) calls do: the first raises, the second raises, both
\* give a vector of the dimension of the saves, both one of another
VectorCases(query) ==
    {[use_vectors |-> FALSE, e1 |-> Fail, e2 |-> Fail],
     [use_vectors |-> TRUE, e1 |-> Fail, e2 |-> Fail],
     [use_vectors |-> TRUE, e1 |-> Vector(2, <<query>>), e2 |-> Fail],
     [use_vectors |-> TRUE, e1 |-> Vector(2, <<query>>), e2 |-> Vector(2, <<query>>)],
     [use_vectors |-> TRUE, e1 |-> Vector(3, <<query>>), e2 |-> Vector(3, <<query>>)]}

SearchArgs ==
    [query : Terms, limit : 1..MaxLimit, project : ProjectArgs, source : SourceArgs]

\* what get_context meets: the mode given, the configured default, the
\* configured provider name, the answer of the readiness probe, and what
\* the two embed(query) calls of its search do
ContextCases(query) ==
    {[semantic_mode |-> None, semantic |-> "never", provider |-> "openai",
      warm |-> TRUE, e1 |-> Fail, e2 |-> Fail],
     [semantic_mode |-> None, semantic |-> "auto", provider |-> "openai",
      warm |-> TRUE, e1 |-> Vector(2, <<query>>), e2 |-> Vector(2, <<query>>)],
     [semantic_mode |-> "auto", semantic |-> "auto", provider |-> "ollama",
      warm |-> TRUE, e1 |-> Vector(2, <<query>>), e2 |-> Fail],
     [semantic_mode |-> "auto", semantic |-> "auto", provider |-> "ollama",
      warm |-> FALSE, e1 |-> Fail, e2 |-> Fail],
     [semantic_mode |-> "always", semantic |-> "auto", provider |-> "ollama",
      warm |-> FALSE, e1 |-> Vector(3, <<query>>), e2 |-> Vector(3, <<query>>)],
     [semantic_mode |-> "always", semantic |-> "auto", provider |-> "openai",
      warm |-> TRUE, e1 |-> Fail, e2 |-> Fail],
     [semantic_mode |-> "never", semantic |-> "auto", provider |-> "openai",
      warm |-> TRUE, e1 |-> Fail, e2 |-> Fail],
     [semantic_mode |-> "sometimes", semantic |-> "never", provider |-> "openai",
      warm |-> TRUE, e1 |-> Vector(2, <<query>>), e2 |-> Vector(2, <<query>>)]}

\* the filters of the searches that are run: none, or project and source
Filters == {[project |-> None, source |-> None],
            [project |-> "p1", source |-> "codex"]}

NoLookup == [op |-> "init"]

InitSearch ==
    /\ db = EmptyDB
    /\ vault = [p \in SearchProjects |-> NoFile]
    /\ _vectors_available = None
    /\ providerDim = 2
    /\ last = NoLookup
    /\ embedLog = <<>>
    /\ issued = 0

SaveRecord ==
    /\ db.nextRowid <= MaxIndexed
    /\ \E k \in Indexed :
         \E r \in {save(Service, SearchRaw(k), k.project, IdSeq[issued + 1],
                        IF k.embeds THEN Vector(providerDim, <<>>) ELSE Fail)} :
            /\ db' = r.db
            /\ vault' = r.vault
            /\ _vectors_available' = r.va
            /\ issued' = issued + 1
            /\ last' = [op |-> "save"]
    /\ UNCHANGED <<providerDim, embedLog>>

SearchRecords ==
    /\ \E query \in Terms, limit \in 1..MaxLimit, f \in Filters :
       \E c \in VectorCases(query) :
         \E r \in {search(Service, query, limit, f.project, f.source,
                          c.use_vectors, c.e1, c.e2)} :
            /\ db' = r.db
            /\ _vectors_available' = r.va
            /\ last' = [op |-> "search"]
    /\ UNCHANGED <<vault, providerDim, embedLog, issued>>

GetContext ==
    /\ \E query \in Terms \cup {None}, limit \in 1..MaxLimit, f \in Filters,
          topup_recent \in BOOLEAN :
       \E c \in ContextCases(query) :
         \E r \in {get_context(Service, limit, f.project, f.source, query,
                               c.semantic_mode, topup_recent, c)} :
            /\ db' = r.db
            /\ _vectors_available' = r.va
            /\ last' = [op |-> "get_context"]
    /\ UNCHANGED <<vault, providerDim, embedLog, issued>>

NextSearch == SaveRecord \/ SearchRecords \/ GetContext

SpecSearch == InitSearch /\ [][NextSearch]_vars

Descending(rows) ==
    \A i \in 1..Len(rows) - 1 : ~RatLess(rows[i].score, rows[i + 1].score)

\* C21: whenever search() does not take the hybrid path (no vectors asked
\* for, the vector index not usable, or a fault at query time), its rows
\* are the full-text hits, best first, cut to limit, each scored by its
\* full-text score divided by the largest one: within [0, 1], the first
\* one exactly 1, the 0.3 weight not applied.
C21_FtsOnlyNormalised ==
    \A a \in SearchArgs : \A c \in VectorCases(a.query) :
      \A r \in {search(Service, a.query, a.limit, a.project, a.source,
                       c.use_vectors, c.e1, c.e2)} :
      \A hits \in {fts_search(db, a.query, a.limit * 2, a.project, a.source)} :
         r.path # "hybrid" =>
            /\ ~r.raised
            /\ Len(r.rows) = (IF a.limit < Len(hits) THEN a.limit ELSE Len(hits))
            /\ \A i \in 1..Len(r.rows) :
                  /\ r.rows[i].id = hits[i].id
                  /\ RatEq(r.rows[i].score, RatDiv(hits[i].score, hits[1].score))
                  /\ ~RatLess(r.rows[i].score, <<0, 1>>)
                  /\ ~RatLess(<<1, 1>>, r.rows[i].score)
            /\ Descending(r.rows)
            /\ (r.rows # <<>> => RatEq(r.rows[1].score, <<1, 1>>))

\* a search has fallen back to full text, and a search with vectors asked
\* for falls back after a fault and returns two hits of different relevance
C21_Witness ==
    /\ last.op = "search"
    /\ \E a \in SearchArgs : \E c \in VectorCases(a.query) :
         \E r \in {search(Service, a.query, a.limit, a.project, a.source,
                          c.use_vectors, c.e1, c.e2)} :
            /\ c.use_vectors
            /\ r.path = "fallback"
            /\ Len(r.rows) = 2
            /\ RatLess(r.rows[2].score, r.rows[1].score)

\* C24: every row search() returns, on the hybrid and on the full-text
\* path, and every entry get_context() returns, topped up or not, lies in
\* the project and the source that were asked for.
C24_ResultsWithinScope ==
    \A a \in SearchArgs : \A c \in VectorCases(a.query) :
      /\ \A r \in {search(Service, a.query, a.limit, a.project, a.source,
                          c.use_vectors, c.e1, c.e2)} :
            \A i \in 1..Len(r.rows) : Scope(r.rows[i], a.project, a.source)
      /\ \A g \in {get_context(Service, a.limit, a.project, a.source, a.query,
                               IF c.use_vectors THEN "always" ELSE "never", TRUE,
                               [semantic |-> "auto", provider |-> "openai", warm |-> TRUE,
                                e1 |-> c.e1, e2 |-> c.e2])} :
            \A i \in 1..Len(g.rows) : Scope(g.rows[i], a.project, a.source)

\* a hybrid search for project p1 and source codex returns a row while the
\* Index holds an embedded hit of another project or source
C24_Witness ==
    /\ last.op = "search"
    /\ \E a \in SearchArgs : \E c \in VectorCases(a.query) :
         \E r \in {search(Service, a.query, a.limit, a.project, a.source,
                          c.use_vectors, c.e1, c.e2)} :
            /\ a.project = "p1" /\ a.source = "codex"
            /\ r.path = "hybrid"
            /\ r.rows # <<>>
            /\ \E j \in 1..Len(db.memories) :
                  /\ ~Scope(db.memories[j], a.project, a.source)
                  /\ HasVector(db, db.memories[j].rowid)
                  /\ FtsScore(db.memories[j], a.query) > 0

\* C25: get_context() with a query and top-up returns the search rows
\* first, in their order, then the latest records not among them, latest
\* first; no identifier twice; exactly min(limit, number of records in
\* scope) entries.
C25_TopUpAfterRanked ==
    \A a \in SearchArgs : \A c \in VectorCases(a.query) :
      \A g \in {get_context(Service, a.limit, a.project, a.source, a.query,
                            IF c.use_vectors THEN "always" ELSE "never", TRUE,
                            [semantic |-> "auto", provider |-> "openai", warm |-> TRUE,
                             e1 |-> c.e1, e2 |-> c.e2])} :
      \A others \in {Filter(list_recent(db, Len(db.memories), a.project, a.source),
                            LAMBDA h : h.id \notin Range(Ids(g.found)))} :
         /\ SubSeq(g.rows, 1, Len(g.found)) = g.found
         /\ SubSeq(g.rows, Len(g.found) + 1, Len(g.rows))
               = Take(others, a.limit - Len(g.found))
         /\ DistinctIds(g.rows)
         /\ Len(g.rows) = (IF a.limit < g.total THEN a.limit ELSE g.total)

\* get_context has run, and a query finds one record while a second, not
\* found, is added by the top-up
C25_Witness ==
    /\ last.op = "get_context"
    /\ \E a \in SearchArgs : \E c \in VectorCases(a.query) :
         \E g \in {get_context(Service, a.limit, a.project, a.source, a.query,
                               IF c.use_vectors THEN "always" ELSE "never", TRUE,
                               [semantic |-> "auto", provider |-> "openai", warm |-> TRUE,
                                e1 |-> c.e1, e2 |-> c.e2])} :
            /\ Len(g.found) = 1
            /\ Len(g.rows) = 2
            /\ g.total = 2

\* C27: a save() with enrichment requested whose enrichment collaborator
\* is not configured, cannot be obtained, or raises in extract_tags (and
\* whose input is valid and whose mirror and Index writes work) returns:
\* the record is stored with the caller's tags, its section is in the
\* mirror and its row in the Index.
C27_EnrichmentNeverFatal ==
    issued < MaxFullSaves =>
      \A raw \in SaveRaws, project \in Projects,
         enrichment \in {NoEnrichment, CreateFail, ExtractFail} :
        \A r \in {MemoryService_save(Service, raw, project, TRUE, IdSeq[issued + 1],
                     [enrichment |-> enrichment, mirror |-> "ok", index |-> "ok",
                      provider |-> Fail])} :
           ~ValidationFault(raw) =>
              /\ ~r.raised
              /\ HasSection(r.vault[project], IdSeq[issued + 1])
              /\ \E i \in 1..Len(r.db.memories) :
                    /\ r.db.memories[i].id = IdSeq[issued + 1]
                    /\ r.db.memories[i].tags = raw.tags

RECURSIVE FirstSeen(_, _)
\* the sources of the records xs in first-seen order, after those in seen
FirstSeen(xs, seen) ==
    IF xs = <<>> THEN seen
    ELSE IF Head(xs) = None \/ Head(xs) \in Range(seen)
    THEN FirstSeen(Tail(xs), seen)
    ELSE FirstSeen(Tail(xs), Append(seen, Head(xs)))

\* C28: the source list of a session file is the sources of the records
\* written to it in first-seen order, without duplicates; one more write
\* to the existing file leaves the list as it is when the record has no
\* source or a listed one, and appends the source at the end otherwise.
C28_SourcesFirstSeenNoDuplicates ==
    \A p \in Projects :
      vault[p].exists =>
        /\ vault[p].sources
             = FirstSeen([i \in 1..Len(last.cats) |-> MirrorSource[last.cats[i]]], <<>>)
        /\ \A raw \in MirrorRaws :
             \A f \in {write_session_memory(vault[p], from_raw(raw, p, IdSeq[1]),
                                            raw.details)} :
                f.sources = IF raw.source = None \/ raw.source \in Range(vault[p].sources)
                            THEN vault[p].sources
                            ELSE Append(vault[p].sources, raw.source)

(* ------------------------------------------------------------------ *)
(* Overlapping save() calls of two callers on one (project, day): the   *)
(* mirror write of save() is exists(), read_text() and write_text() on  *)
(* the session file, three separate file-system calls with no lock      *)
(* (src/memory/markdown.py 60-73), followed by the Index insert         *)
(* (src/memory/core.py 253-256)                                         *)
(* ------------------------------------------------------------------ *)
MaxRaceSaves == 3    \* save() calls per behaviour of SpecRace
Callers == {1, 2}
RaceProject == "p1"

RaceRaws ==
    {[title |-> <<"auth">>, what |-> <<"auth">>, source |-> "claude-code",
      category |-> c, tags |-> <<1>>, details |-> NoDetails] :
        c \in {"decision", "bug"}}

\* a caller outside save()
Idle ==
    [pc |-> "idle", mem |-> from_raw(CHOOSE r \in RaceRaws : r.category = "decision",
                                     RaceProject, <<>>),
     found |-> FALSE, content |-> NoFile, overlapped |-> FALSE]

\* the caller is between its exists() and its write_text()
InWindow(c) == c.pc \in {"checked", "read"}

\* last of SpecRace: where each caller stands in its save(), and the saves
\* that returned: identifier, what exists() answered, and whether another
\* save() was between exists() and write_text() at the same time
InitRace ==
    /\ db = EmptyDB
    /\ vault = [p \in Projects |-> NoFile]
    /\ _vectors_available = None
    /\ providerDim = 2
    /\ last = [op |-> "init", callers |-> [c \in Callers |-> Idle], returned |-> {}]
    /\ embedLog = <<>>
    /\ issued = 0

\* save() up to file_path.exists() in write_session_memory
Exists(c) ==
    /\ last.callers[c].pc = "idle"
    /\ issued < MaxRaceSaves
    /\ \E raw \in RaceRaws :
         LET overlap == \E o \in Callers \ {c} : InWindow(last.callers[o])
         IN last' = [last EXCEPT
               !.op = "exists",
               !.callers = [o \in Callers |->
                  IF o = c
                  THEN [pc |-> "checked",
                        mem |-> from_raw(RedactFields(raw, ignore_patterns),
                                         RaceProject, IdSeq[issued + 1]),
                        found |-> vault[RaceProject].exists,
                        content |-> NoFile, overlapped |-> overlap]
                  ELSE [@[o] EXCEPT !.overlapped = @ \/ InWindow(last.callers[o])]]]
    /\ vault' = [vault EXCEPT ![RaceProject] = makedirs(@)]
    /\ issued' = issued + 1
    /\ UNCHANGED <<db, _vectors_available, providerDim, embedLog>>

\* content = file_path.read_text()
ReadText(c) ==
    /\ last.callers[c].pc = "checked"
    /\ last.callers[c].found
    /\ last' = [last EXCEPT !.op = "read_text",
                            !.callers[c].pc = "read",
                            !.callers[c].content = vault[RaceProject]]
    /\ UNCHANGED <<db, vault, _vectors_available, providerDim, embedLog, issued>>

\* file_path.write_text(...): the new file, or the content read with the
\* section inserted
WriteText(c) ==
    LET me == last.callers[c]
        section_content == render_section(me.mem, NoDetails)
    IN /\ \/ me.pc = "checked" /\ ~me.found
          \/ me.pc = "read"
       /\ vault' = [vault EXCEPT ![RaceProject] =
                      IF me.pc = "read"
                      THEN _append_to_session_file(me.content, me.mem, section_content)
                      ELSE _create_new_session_file(me.mem, section_content)]
       /\ last' = [last EXCEPT !.op = "write_text", !.callers[c].pc = "written"]
       /\ UNCHANGED <<db, _vectors_available, providerDim, embedLog, issued>>

\* the rest of save(): the Index insert and the embedding, which fails here
InsertMemory(c) ==
    LET me == last.callers[c]
        ins == insert_memory(db, me.mem, NoDetails)
        be == BestEffortEmbed(ins.db, _vectors_available, ins.rowid, Fail)
    IN /\ me.pc = "written"
       /\ db' = be.db
       /\ _vectors_available' = be.va
       /\ last' = [last EXCEPT
                     !.op = "insert_memory",
                     !.callers[c] = Idle,
                     !.returned = @ \cup {[id |-> me.mem.id, found |-> me.found,
                                           overlapped |-> me.overlapped]}]
       /\ UNCHANGED <<vault, providerDim, embedLog, issued>>

NextRace ==
    \E c \in Callers : Exists(c) \/ ReadText(c) \/ WriteText(c) \/ InsertMemory(c)

SpecRace == InitRace /\ [][NextRace]_vars

\* C26: every save() that returned has its row in the Index, and a save()
\* during whose mirror write no other save() was writing the mirror has
\* its section in the session file; without that, see C26_Witness, two
\* saves can leave two rows and one section.
C26_SerializedSavesKeepBothSections ==
    \A s \in last.returned :
      /\ HasRow(db, s.id)
      /\ ~s.overlapped => HasSection(vault[RaceProject], s.id)

\* two overlapping saves that both found the file absent have returned:
\* both rows are in the Index, the file holds the section of one of them
C26_Witness ==
    \E s, t \in last.returned :
      /\ s.id # t.id
      /\ s.overlapped /\ t.overlapped
      /\ ~s.found /\ ~t.found
      /\ HasRow(db, s.id) /\ HasRow(db, t.id)
      /\ HasSection(vault[RaceProject], s.id)
      /\ ~HasSection(vault[RaceProject], t.id)

\* a score divided by the maximum of its own list, 0 when that maximum is 0
OwnNorm(xs, i) ==
    IF RatLess(<<0, 1>>, MaxScore(xs)) THEN RatDiv(xs[i].score, MaxScore(xs))
    ELSE <<0, 1>>

\* C31: in the full-text-only mode every returned score is the score of
\* the entry divided by the maximum of the list, and in merge_results
\* every combined score is made of the scores divided by the maximum of
\* their own list; with a maximum of zero the normalized scores are 0, an
\* empty list gives nothing, and no score is a quotient by zero.
C31_NormalizedByOwnMaximum ==
    /\ last.op = "fts_only" =>
         /\ Len(last.rows) <= Len(last.fts_results)
         /\ \A i \in 1..Len(last.rows) :
               /\ last.rows[i].score[2] # 0
               /\ last.rows[i].id = last.fts_results[i].id
               /\ RatEq(last.rows[i].score, OwnNorm(last.fts_results, i))
    /\ last.op = "merge" /\ DistinctIds(last.fts_results)
                         /\ DistinctIds(last.vec_results) =>
         \A k \in 1..Len(last.rows) :
            LET id == last.rows[k].id
                i == IndexOfId(last.fts_results, id)
                j == IndexOfId(last.vec_results, id)
                f == IF i = 0 THEN <<0, 1>>
                     ELSE RatMul(fts_weight, OwnNorm(last.fts_results, i))
                v == IF j = 0 THEN <<0, 1>>
                     ELSE RatMul(vec_weight, OwnNorm(last.vec_results, j))
            IN /\ last.rows[k].score[2] # 0
               /\ RatEq(last.rows[k].score, RatAdd(f, v))

\* the full-text-only mode has run on a list of two entries whose scores
\* are all zero, and returned zero scores
C31_Witness ==
    /\ last.op = "fts_only"
    /\ Len(last.fts_results) = 2
    /\ \A i \in 1..2 : RatEq(last.fts_results[i].score, <<0, 1>>)
    /\ Len(last.rows) = 2
    /\ \A i \in 1..2 : last.rows[i].score = <<0, 1>>

\* the lines of a body that are category headings made by the writer
HeadingIdx(body) == {i \in 1..Len(body) : body[i].k = "h2" /\ body[i].of = <<>>}

\* C32: a write of a record whose category heading is in the file adds no
\* heading of that category and puts the one section of the record under
\* that heading as the last one: no heading lies between the heading and
\* the section, and only blank lines lie between the section and the next
\* category heading or the end of the file.
C32_LastUnderExistingHeading ==
    [][\A p \in Projects :
         /\ last'.op = "write"
         /\ last'.category # None
         /\ \E h \in HeadingIdx(vault[p].body) :
               vault[p].body[h].v = CATEGORY_HEADINGS[last'.category]
         => LET heading == CATEGORY_HEADINGS[last'.category]
                body == vault'[p].body
                sec == SectionIdx(body, last'.id)
            IN /\ Cardinality({h \in HeadingIdx(body) : body[h].v = heading})
                    = Cardinality({h \in HeadingIdx(vault[p].body) :
                                      vault[p].body[h].v = heading})
               /\ Cardinality({i \in sec : body[i].k = "h3"}) = 1
               /\ \E h \in HeadingIdx(body) :
                     /\ body[h].v = heading
                     /\ \A i \in sec :
                           /\ h < i
                           /\ \A g \in HeadingIdx(body) : ~(h < g /\ g < i)
                           /\ \A j \in (i + 1)..Len(body) :
                                 \/ j \in sec
                                 \/ body[j].k = "blank"
                                 \/ \E g \in HeadingIdx(body) : i < g /\ g <= j]_vars

\* C33: the tag list in the frontmatter of a session file is sorted and
\* holds no tag twice, in every state of the file, the one after the write
\* that created it included.
C33_FrontmatterTagsSortedDistinct ==
    \A p \in Projects :
       vault[p].exists =>
          \A i \in 1..(Len(vault[p].tags) - 1) : vault[p].tags[i] < vault[p].tags[i + 1]

\* the get_context calls looked at: a query, a limit, no filter or both
ContextArgs == [query : Terms, limit : 1..MaxLimit, f : Filters]

\* C34, as the claim states it: with mode never no embed call is made;
\* with mode auto the probe is the first call whenever an embed call is
\* made; with mode always no probe is made.
C34_ProbeBeforeEveryEmbedInAuto ==
    \A a \in ContextArgs : \A c \in ContextCases(a.query) :
      \A g \in {get_context(Service, a.limit, a.f.project, a.f.source, a.query,
                            c.semantic_mode, FALSE, c)} :
      \A mode \in {EffectiveMode(c.semantic_mode, c.semantic)} :
         /\ mode = "never" => "embed" \notin Range(g.calls)
         /\ mode = "always" => "probe" \notin Range(g.calls)
         /\ mode = "auto" /\ "embed" \in Range(g.calls) => g.calls[1] = "probe"

\* C34, amended: with mode never no embed call is made; with mode always
\* no probe is made; with mode auto and the ollama backend the probe is
\* the first call, and when it answers not ready it is the only call and
\* the result is the full-text-only result; with mode auto and another
\* backend no probe is made.
C34_ProbeOnlyForOllama ==
    \A a \in ContextArgs : \A c \in ContextCases(a.query) :
      \A g \in {get_context(Service, a.limit, a.f.project, a.f.source, a.query,
                            c.semantic_mode, FALSE, c)} :
      \A mode \in {EffectiveMode(c.semantic_mode, c.semantic)} :
         /\ mode = "never" => "embed" \notin Range(g.calls)
         /\ mode = "always" => "probe" \notin Range(g.calls)
         /\ mode = "auto" /\ c.provider = "ollama" =>
               /\ g.calls # <<>> /\ g.calls[1] = "probe"
               /\ ~c.warm =>
                     /\ g.calls = <<"probe">>
                     /\ g.rows = fts_only(fts_search(db, a.query, a.limit * 2,
                                                     a.f.project, a.f.source),
                                          a.limit)
         /\ mode = "auto" /\ c.provider # "ollama" => "probe" \notin Range(g.calls)

\* get_context has run; the vectors are available, and a call in mode auto
\* with an ollama backend that is not ready makes the probe and no embed
\* call and returns full-text rows, while the same call in mode always
\* makes embed calls
C34_Witness ==
    /\ last.op = "get_context"
    /\ \E a \in ContextArgs : \E c, d \in ContextCases(a.query) :
         \E g \in {get_context(Service, a.limit, a.f.project, a.f.source, a.query,
                               c.semantic_mode, FALSE, c)} :
         \E h \in {get_context(Service, a.limit, a.f.project, a.f.source, a.query,
                               d.semantic_mode, FALSE, d)} :
            /\ c.semantic_mode = "auto" /\ c.provider = "ollama" /\ ~c.warm
            /\ g.calls = <<"probe">>
            /\ g.rows # <<>>
            /\ d.semantic_mode = "always"
            /\ "embed" \in Range(h.calls)

(* ------------------------------------------------------------------ *)
(* The tag augmentation of save(): the caller's tags and the list the   *)
(* enrichment collaborator returns (src/memory/core.py 237-242,         *)
(* src/memory/enrichment/base.py 9-27)                                  *)
(* ------------------------------------------------------------------ *)
MaxCallerTags == 2     \* tags of the caller
MaxEnrichedTags == 2   \* tags of a short list of the collaborator

\* the lists of up to n tags out of T
TagLists(T, n) == UNION {[1..k -> T] : k \in 0..n}

\* "API", "api", "jwt", "jwt!"
CallerTagLists == TagLists(1..4, MaxCallerTags)

\* short lists with "~", which has nothing to keep, and two lists of more
\* than MaxTags different tags
EnrichedTagLists ==
    TagLists({1, 2, 3, 4, 14}, MaxEnrichedTags)
    \cup {<<5, 6, 7, 8, 9, 10, 11, 12, 13>>,
          <<1, 2, 5, 6, 7, 8, 9, 10, 11, 12, 13>>}

InitTags ==
    /\ db = EmptyDB
    /\ vault = [p \in Projects |-> NoFile]
    /\ _vectors_available = None
    /\ providerDim = 2
    /\ last \in [op : {"tags"}, tags : CallerTagLists, enriched : EnrichedTagLists,
                 merged : {<<>>}]
    /\ embedLog = <<>>
    /\ issued = 0

\* the `if enrich:` block of a save() whose collaborator returns a list
EnrichTags ==
    /\ last.op = "tags"
    /\ last' = [last EXCEPT
                  !.op = "enriched",
                  !.merged = Enrich([title |-> <<"auth">>, what |-> <<"auth">>,
                                     source |-> None, category |-> None,
                                     tags |-> last.tags, details |-> NoDetails],
                                    TRUE, Extracted(last.enriched)).raw.tags]
    /\ UNCHANGED <<db, vault, _vectors_available, providerDim, embedLog, issued>>

NextTags == EnrichTags

SpecTags == InitTags /\ [][NextTags]_vars

\* C35: after the enrichment the tags of the record begin with the
\* caller's tags in their order; what follows are at most MaxTags tags,
\* each the normalized form of a tag of the collaborator and equal to no
\* earlier tag of the list when case is ignored.
C35_EnrichmentOnlyAddsTags ==
    last.op = "enriched" =>
       /\ Len(last.merged) >= Len(last.tags)
       /\ SubSeq(last.merged, 1, Len(last.tags)) = last.tags
       /\ Len(last.merged) - Len(last.tags) <= MaxTags
       /\ \A k \in (Len(last.tags) + 1)..Len(last.merged) :
             /\ \E i \in 1..Len(last.enriched) :
                   last.merged[k] = normalize_tag(last.enriched[i])
             /\ \A j \in 1..(k - 1) : Lower(last.merged[j]) # Lower(last.merged[k])

\* a caller with tags whose collaborator returned more than MaxTags
\* different tags: MaxTags of them were added
C35_Witness ==
    /\ last.op = "enriched"
    /\ last.tags # <<>>
    /\ Len(last.enriched) > MaxTags
    /\ Len(last.merged) = Len(last.tags) + MaxTags

\* C36: every write_session_memory call adds exactly one copy of the
\* section of its record, whatever the title and the details body hold, so
\* after any sequence of writes every record written has exactly one title
\* line in the mirror files.
C36_EveryWriteAddsOneSection ==
    \A k \in 1..issued :
       \E p \in Projects :
          /\ Cardinality({i \in 1..Len(vault[p].body) :
                            /\ vault[p].body[i].k = "h3"
                            /\ vault[p].body[i].of = IdSeq[k]}) = 1
          /\ \A q \in Projects \ {p} : ~HasSection(vault[q], IdSeq[k])

\* C37: a reindex() whose dimension probe raises does raise, and leaves the
\* vector table, its rows, the recorded dimension and the cached flag as
\* they were, in every state the service can be in.
C37_FailedProbeChangesNothing ==
    /\ \A outs \in [1..Len(db.memories) -> Providers] :
          \A r \in {reindex(Service, Fail, outs)} :
             /\ r.raised
             /\ r.db = db
             /\ r.va = _vectors_available
    /\ last.op = "reindex" /\ last.fault => last.raised /\ db.dim = last.dim0

\* a reindex() whose probe failed on a store that has a vector table with
\* a row in it and a cached flag
C37_Witness ==
    /\ last.op = "reindex"
    /\ last.fault
    /\ last.raised
    /\ has_vec_table(db)
    /\ db.vec # {}
    /\ _vectors_available = "True"

\* C38: the cached flag agrees with the store: whenever the flag is True
\* the vector table exists, and whenever the vector table exists at the
\* dimension the provider produces, a search() with the vector path enabled
\* attempts the hybrid path, that is, it is not sent to the full-text
\* fallback by the flag alone.
C38_FlagAgreesWithStore ==
    /\ _vectors_available = "True" => has_vec_table(db)
    /\ has_vec_table(db) /\ db.dim = providerDim =>
          \A query \in Terms, limit \in 1..MaxLimit, e1 \in Providers, e2 \in Providers :
             \A r \in {search(Service, query, limit, None, None, TRUE,
                              IF e1 = Fail THEN Fail ELSE Vector(e1.len, <<query>>),
                              IF e2 = Fail THEN Fail ELSE Vector(e2.len, <<query>>))} :
                r.path = "hybrid" \/ r.fault

\* C39: in save() the text given to the enrichment collaborator and the
\* text given to the embedding collaborator hold no substring a redaction
\* pattern matches: the text of every vector stored by a save(), and the
\* text extract_tags is called with for every input, are made of redacted
\* values only.
C39_CollaboratorsGetRedactedText ==
    /\ \A r \in db.vec : ~Sensitive(r.vector.text)
    /\ \A raw0 \in SaveRaws, enrichment \in {ExtractFail, Extracted(<<1, 3>>)} :
          \A en \in {Enrich(RedactFields(raw0, ignore_patterns), TRUE, enrichment)} :
             en.called => ~Sensitive(en.text)

====
